---- MODULE Spec2Model ----
(***************************************************************************)
(* A model of sidekick's scan orchestrator (internal/scanner/scanner.go):  *)
(* ScanFiles with its three-worker pool (security and custom modes) and    *)
(* its sequential triad debate, and of the interactive fix reviewer        *)
(* (ReviewFindings / applyFix).                                            *)
(***************************************************************************)
EXTENDS Integers, Sequences, FiniteSets, TLC

(***************************************************************************)
(* Bounds of the model and constants of the program.                       *)
(***************************************************************************)
\* Largest number of input files handed to ScanFiles.
MaxFiles == 2
\* Largest number of findings in a decoded model response.
MaxIssues == 1
\* Largest number of lines of the file under review.
MaxLines == 4
\* Largest number of findings handed to ReviewFindings.
MaxFindings == 2
\* Largest number of lines of a suggested fix.
MaxFixLines == 3
\* Largest number of characters of a model response handed to the normalizer.
MaxChars == 4
\* Largest number of calls of text functions made one after the other.
MaxOps == 2
\* Largest number of lines of a file handed to the static pre-scan.
MaxSourceLines == 2
\* workers := 3
NumWorkers == 3
\* len(content) > 100000
MaxFileSize == 100000
\* for round := 1; round <= 3; round++
MaxRounds == 3

VARIABLES
    \* ---- ScanFiles: inputs ----
    scanType,     \* s.scanType: "security", "custom" or "triad"
    files,        \* the input files: <<[readable, size], ...>>
    tracing,      \* the history this run keeps: "calls" (fileCalls), "messages" (msgs) or "none"
    \* ---- ScanFiles: worker pool (security / custom) ----
    mainPc,       \* position of the ScanFiles goroutine
    jobs,         \* the buffered channel of file indices (its queued content)
    jobsClosed,   \* close(jobs) has run
    nextJob,      \* loop variable of "for i := range files { jobs <- i }"
    wpc,          \* each worker goroutine's position
    wfile,        \* each worker's i (0 when it holds none)
    wcur,         \* each worker's current (its copy of completed)
    wres,         \* each worker's result under construction
    completed,    \* the shared progress counter
    results,      \* the shared results slice
    errLog,       \* files reported on os.Stderr ("Failed to scan ...")
    taken,        \* how often each index was received from jobs
    fileCalls,    \* history: the model calls issued for each file, [call, outcome] each
    msgs,         \* history: the progress messages of each file, <<k, total>> each
    spinner,      \* the shared ui.Spinner: active, its render goroutines, done
    \* ---- ScanFiles: what it returned ----
    retResults,
    retErr,
    \* ---- scanTriadFiles ----
    tpc,          \* position of the triad scan; a role name while its call is in flight
    codeByFile,   \* the files that passed the size tests
    round,        \* the loop variable
    lastReport,   \* var lastReport triadReport
    summary,      \* var summary string
    lastResp,     \* the auditor response most recently handed to json.Unmarshal
    confLog,      \* history: the "confidence" key of each round's decoded response
    calls,        \* number of s.client.Generate calls issued
    callLog,      \* history: how each triad call that returned went, and its response
    attackerResp, \* attackerResp of the round under way
    prompts,      \* history: the prompts of the triad calls issued, in order
    \* ---- ReviewFindings ----
    rpc,          \* state of the review loop: "browse", "showing" or "done"
    findings,     \* the findings, sorted by the sort.Slice call
    currentIdx,   \* index (from 0) of the finding on screen
    appliedFixes, \* the indices marked in appliedFixes
    backupCreated,
    content,      \* the cached file content
    lines,        \* the cached line list
    disk,         \* the file under review, as it is on disk
    backup,       \* <path>.backup on disk: <<>> while absent, else <<its content>>
    rret,         \* what ReviewFindings returned
    \* ---- history of the review session ----
    orig,         \* the file's content when the session started
    fileWritten,  \* some os.WriteFile on the file has written (or truncated) it
    backupWrites, \* number of successful writes of the backup
    lastApply,    \* the most recent applyFix call: its range after the clamp, ...
    \* ---- the text functions, applied on their own ----
    subject,      \* the value handed to a function: [kind, value]
    applied       \* history: the calls made so far, <<[op, arg, result], ...>>

poolVars == <<mainPc, jobs, jobsClosed, nextJob, wpc, wfile, wcur, wres,
              completed, results, errLog, taken, fileCalls, msgs>>

triadVars == <<tpc, codeByFile, round, lastReport, summary, lastResp, confLog, calls,
               callLog, attackerResp, prompts>>

scanVars == <<scanType, tracing, files, poolVars, spinner, retResults, retErr, triadVars>>

reviewVars == <<rpc, findings, currentIdx, appliedFixes, backupCreated, content,
                lines, disk, backup, rret, orig, fileWritten, backupWrites, lastApply>>

pureVars == <<subject, applied>>

vars == <<scanVars, spinner, reviewVars, pureVars>>

\* a pool that starts one goroutine more than the three
OneWorkerTooMany == 1..(NumWorkers + 1)

Workers == 1..NumWorkers

(***************************************************************************)
(* Input files.  A file is unreadable, or readable with a byte length; the *)
(* lengths sit on both sides of the two skip tests.                        *)
(***************************************************************************)
FileSizes == {0, MaxFileSize, MaxFileSize + 1}

FileKinds ==
    {[readable |-> FALSE, size |-> 0]} \cup
    {[readable |-> TRUE, size |-> s] : s \in FileSizes}

FileLists == UNION {[1..n -> FileKinds] : n \in 0..MaxFiles}

\* a size test that lets the oversize files through
SkippedSizeEmptyOnly(size) == size = 0

\* len(content) == 0 || len(content) > 100000
SkippedSize(size) == size = 0 \/ size > MaxFileSize

(***************************************************************************)
(* Model responses.  A scan response either decodes to a findings list or  *)
(* does not decode; a custom response is a text.                           *)
(***************************************************************************)
IssueLists == UNION {[1..k -> {"issue"}] : k \in 0..MaxIssues}

\* A text without line breaks is a sequence of characters.
CustomResponses == {<<>>, <<" ">>, <<"x">>}

IsSpace(c) == c = " " \/ c = "\t" \/ c = "\n"

RECURSIVE TrimLeft(_)
TrimLeft(t) ==
    IF t # <<>> /\ IsSpace(Head(t)) THEN TrimLeft(Tail(t)) ELSE t

RECURSIVE TrimRight(_)
TrimRight(t) ==
    IF t # <<>> /\ IsSpace(t[Len(t)]) THEN TrimRight(SubSeq(t, 1, Len(t) - 1)) ELSE t

\* strings.TrimSpace
TrimSpace(t) == TrimRight(TrimLeft(t))

\* renderFindings: never the empty text
renderFindings(issues) ==
    IF Len(issues) = 0 THEN <<"No security issues found.">>
    ELSE <<"Security Analysis Report">> \o issues \o <<"Summary:">>

\* ScanResult{FilePath: filePath, Issues: make([]SecurityIssue, 0)}
EmptyResult(path) ==
    [filePath |-> path, rawFindings |-> <<>>, hasIssues |-> FALSE, issues |-> <<>>]

NoResult == [filePath |-> 0, rawFindings |-> <<>>, hasIssues |-> FALSE, issues |-> <<>>]

\* a scan result that reports issues whatever was decoded
SecurityResultAlwaysIssues(path, decoded) ==
    [filePath |-> path, rawFindings |-> renderFindings(decoded),
     hasIssues |-> TRUE, issues |-> decoded]

\* result.Issues = Findings; HasIssues = len(Findings) > 0; RawFindings = render
SecurityResult(path, decoded) ==
    [filePath |-> path, rawFindings |-> renderFindings(decoded),
     hasIssues |-> Len(decoded) > 0, issues |-> decoded]

\* a custom result that takes every response that is not empty for an issue
CustomResultUntrimmed(path, response) ==
    [filePath |-> path, rawFindings |-> response,
     hasIssues |-> response # <<>>, issues |-> <<>>]

\* RawFindings = response; HasIssues = TrimSpace(response) != ""; Issues = {}
CustomResult(path, response) ==
    [filePath |-> path, rawFindings |-> response,
     hasIssues |-> TrimSpace(response) # <<>>, issues |-> <<>>]

(***************************************************************************)
(* Triad mode: the auditor's JSON and the report it is decoded into.       *)
(* A decodable auditor response is a JSON object; each of its four keys is *)
(* absent (<<>>) or present with a value (<<value>>).                      *)
(***************************************************************************)
ConfidenceValues == {<<"H", "I", "G", "H">>, <<"h", "i", "g", "h">>, <<"L", "O", "W">>}
SeverityValues == {<<"L", "O", "W">>}
SummaryValues == {<<" ">>, <<"s">>}
VulnerabilityLists == {<<>>, <<"vuln">>}

Optional(S) == {<<>>} \cup {<<v>> : v \in S}

AuditorObjects ==
    [decodes : {TRUE},
     final_severity : Optional(SeverityValues),
     confidence : Optional(ConfidenceValues),
     vulnerabilities : Optional(VulnerabilityLists),
     summary : Optional(SummaryValues)]

Undecodable ==
    [decodes |-> FALSE, final_severity |-> <<>>, confidence |-> <<>>,
     vulnerabilities |-> <<>>, summary |-> <<>>]

AuditorResponses == AuditorObjects \cup {Undecodable}

\* the zero value of triadReport
ZeroReport ==
    [final_severity |-> <<>>, confidence |-> <<>>, vulnerabilities |-> <<>>,
     summary |-> <<>>]

\* json.Unmarshal(data, &report): a key of the object overwrites its field, and a
\* field whose key is absent keeps the value it had.
Unmarshal(report, obj) ==
    [final_severity |-> IF obj.final_severity = <<>> THEN report.final_severity
                        ELSE obj.final_severity[1],
     confidence |-> IF obj.confidence = <<>> THEN report.confidence
                    ELSE obj.confidence[1],
     vulnerabilities |-> IF obj.vulnerabilities = <<>> THEN report.vulnerabilities
                         ELSE obj.vulnerabilities[1],
     summary |-> IF obj.summary = <<>> THEN report.summary ELSE obj.summary[1]]

ToUpper(c) ==
    CASE c = "h" -> "H" [] c = "i" -> "I" [] c = "g" -> "G"
      [] c = "l" -> "L" [] c = "o" -> "O" [] c = "w" -> "W" [] OTHER -> c

\* strings.EqualFold
EqualFold(a, b) ==
    /\ Len(a) = Len(b)
    /\ \A i \in 1..Len(a) : ToUpper(a[i]) = ToUpper(b[i])

\* a confidence compared with "HIGH" exactly
IsExactlyHigh(confidence) == confidence = <<"H", "I", "G", "H">>

\* strings.EqualFold(lastReport.Confidence, "HIGH")
IsHighConfidence(confidence) == EqualFold(confidence, <<"H", "I", "G", "H">>)

\* truncateText
truncateText(text, maxLen) ==
    IF Len(text) <= maxLen THEN text ELSE SubSeq(text, 1, maxLen)

\* the normalised text of an auditor response (never empty when it decodes)
RawText(obj) ==
    <<"{">> \o (IF obj.summary = <<>> THEN <<>> ELSE obj.summary[1]) \o <<"}">>

\* json.MarshalIndent(lastReport, "", "  "): one JSON document
MarshalIndent(report) == <<report>>

\* what scanTriadFiles returns on success
TriadResult(report, ran) ==
    [filePath |-> "triad:multi",
     rawFindings |-> IF ran THEN MarshalIndent(report) ELSE <<>>,
     hasIssues |-> ran /\ Len(report.vulnerabilities) > 0,
     issues |-> <<>>]

\* what the attacker and the defender may answer: a response text is
\* identified by the call that produced it, so that the text of one call
\* is never taken for the text of another
AttackerResponses(rnd) == {<<"attacker", rnd>>}
DefenderResponses(rnd) == {<<"defender", rnd>>}

\* getTriadAttackerPrompt: the round and the prior summary (the shared context
\* is the same in every prompt of a scan)
getTriadAttackerPrompt(rnd, priorSummary) ==
    [role |-> "attacker", round |-> rnd, summary |-> priorSummary,
     attacker |-> <<>>, defender |-> <<>>]

\* a defender prompt that leaves the attacker's claims out
DefenderPromptWithoutClaims(rnd, priorSummary, attackerResponse) ==
    [role |-> "defender", round |-> rnd, summary |-> priorSummary,
     attacker |-> <<>>, defender |-> <<>>]

\* getTriadDefenderPrompt: it embeds the attacker's response
getTriadDefenderPrompt(rnd, priorSummary, attackerResponse) ==
    [role |-> "defender", round |-> rnd, summary |-> priorSummary,
     attacker |-> attackerResponse, defender |-> <<>>]

\* getTriadAuditorPrompt: it embeds the attacker's and the defender's response
getTriadAuditorPrompt(rnd, priorSummary, attackerResponse, defenderResponse) ==
    [role |-> "auditor", round |-> rnd, summary |-> priorSummary,
     attacker |-> attackerResponse, defender |-> defenderResponse]

\* an entry of callLog
Returned(outcome, response) == [outcome |-> outcome, response |-> response]

InitTriadVars ==
    /\ tpc = IF scanType = "triad" THEN "read" ELSE "unused"
    /\ codeByFile = {}
    /\ round = 0
    /\ lastReport = ZeroReport
    /\ summary = <<>>
    /\ lastResp = Undecodable
    /\ confLog = <<>>
    /\ calls = 0
    /\ callLog = <<>>
    /\ attackerResp = <<>>
    /\ prompts = <<>>

(***************************************************************************)
(* The spinner ScanFiles shares among its goroutines.  Its render          *)
(* goroutines are counted; done is an unbuffered channel, so a Stop stays  *)
(* in its send (among senders) until a render goroutine receives.  The     *)
(* ScanFiles goroutine is caller 0, a worker is its own number.            *)
(***************************************************************************)
\* ui.NewSpinner(""); sent and received count the values that went over done
NewSpinner ==
    [active |-> FALSE, renderers |-> 0, senders |-> {}, sent |-> 0, received |-> 0]

\* Start: nothing when active; else active = true and go func() { ... }
Start(s) ==
    IF s.active THEN s ELSE [s EXCEPT !.active = TRUE, !.renderers = @ + 1]

\* Stop up to its send: nothing when not active; else active = false and
\* s.done <- true begins
Stop(s, caller) ==
    IF ~s.active THEN s
    ELSE [s EXCEPT !.active = FALSE, !.senders = @ \cup {caller}, !.sent = @ + 1]

(***************************************************************************)
(* Initial state: a scanner of some mode handed some list of files, with   *)
(* ScanFiles entered and (in security / custom mode) the workers started.  *)
(***************************************************************************)
InitScan ==
    /\ scanType \in {"security", "custom", "triad"}
    /\ files \in FileLists
    /\ mainPc = IF scanType = "triad" THEN "triad" ELSE "queue"
    /\ jobs = <<>>
    /\ jobsClosed = FALSE
    /\ nextJob = 1
    /\ wpc = [w \in Workers |-> IF scanType = "triad" THEN "unstarted" ELSE "range"]
    /\ wfile = [w \in Workers |-> 0]
    /\ wcur = [w \in Workers |-> 0]
    /\ wres = [w \in Workers |-> NoResult]
    /\ completed = 0
    /\ results = <<>>
    /\ errLog = {}
    /\ taken = [i \in 1..Len(files) |-> 0]
    /\ fileCalls = [i \in 1..Len(files) |-> <<>>]
    /\ msgs = [i \in 1..Len(files) |-> <<>>]
    /\ spinner = NewSpinner
    /\ retResults = <<>>
    /\ retErr = "unset"
    /\ InitTriadVars

PoolMode == scanType \in {"security", "custom"}

(***************************************************************************)
(* The ScanFiles goroutine.                                                *)
(***************************************************************************)
\* jobs <- i   (the channel holds len(files) entries, so the send never blocks)
Enqueue ==
    /\ PoolMode /\ mainPc = "queue" /\ nextJob <= Len(files)
    /\ Len(jobs) < Len(files)
    /\ jobs' = Append(jobs, nextJob)
    /\ nextJob' = nextJob + 1
    /\ UNCHANGED <<scanType, tracing, files, mainPc, jobsClosed, wpc, wfile, wcur, wres,
                   completed, results, errLog, taken, retResults, retErr, triadVars, fileCalls, msgs,
                   spinner, reviewVars, pureVars>>

\* close(jobs)
CloseJobs ==
    /\ PoolMode /\ mainPc = "queue" /\ nextJob > Len(files)
    /\ jobsClosed' = TRUE
    /\ mainPc' = "wait"
    /\ UNCHANGED <<scanType, tracing, files, jobs, nextJob, wpc, wfile, wcur, wres,
                   completed, results, errLog, taken, retResults, retErr, triadVars, fileCalls, msgs,
                   spinner, reviewVars, pureVars>>

\* wg.Wait(); spinner.Stop() up to its send
WaitAndStop ==
    /\ PoolMode /\ mainPc = "wait"
    /\ \A w \in Workers : wpc[w] = "exited"
    /\ mainPc' = "stop"
    /\ spinner' = Stop(spinner, 0)
    /\ UNCHANGED <<scanType, tracing, files, jobs, jobsClosed, nextJob, wpc, wfile, wcur,
                   wres, completed, results, errLog, taken, retResults, retErr, triadVars,
                   fileCalls, msgs, reviewVars, pureVars>>

\* spinner.Stop() returns; return results, nil
WaitAndReturn ==
    /\ PoolMode /\ mainPc = "stop"
    /\ 0 \notin spinner.senders
    /\ mainPc' = "done"
    /\ retResults' = results
    /\ retErr' = "nil"
    /\ UNCHANGED <<scanType, tracing, files, jobs, jobsClosed, nextJob, wpc, wfile, wcur,
                   wres, completed, results, errLog, taken, triadVars, fileCalls, msgs,
                   spinner, reviewVars, pureVars>>

(***************************************************************************)
(* The render goroutine of the spinner.                                    *)
(***************************************************************************)
\* a render goroutine that prints its frames and never looks at done
RenderNeverExits ==
    /\ FALSE
    /\ UNCHANGED vars

\* case <-s.done: return   (the default branch prints a frame and sleeps)
RenderExit ==
    /\ spinner.renderers > 0
    /\ \E caller \in spinner.senders :
         spinner' = [spinner EXCEPT !.senders = @ \ {caller},
                                    !.renderers = @ - 1,
                                    !.received = @ + 1]
    /\ UNCHANGED <<scanType, tracing, files, poolVars, retResults, retErr, triadVars,
                   reviewVars, pureVars>>

\* an error path that stops and starts the spinner without progressMu
progressMuIgnored == TRUE

\* progressMu is free: it is held across steps only by a worker on the error
\* path (progressMu.Lock(); spinner.Stop(); ...) whose Stop has not returned
progressMuFree == \A v \in Workers : wpc[v] # "stopping"

(***************************************************************************)
(* A worker goroutine: for i := range jobs { ... }                         *)
(***************************************************************************)
\* i := <-jobs
Take(w) ==
    /\ PoolMode /\ wpc[w] = "range" /\ jobs # <<>>
    /\ wfile' = [wfile EXCEPT ![w] = Head(jobs)]
    /\ jobs' = Tail(jobs)
    /\ taken' = [taken EXCEPT ![Head(jobs)] = @ + 1]
    /\ wpc' = [wpc EXCEPT ![w] = "progress"]
    /\ UNCHANGED <<scanType, tracing, files, mainPc, jobsClosed, nextJob, wcur, wres,
                   completed, results, errLog, retResults, retErr, triadVars, fileCalls, msgs,
                   spinner, reviewVars, pureVars>>

\* the range loop ends: jobs is closed and drained; defer wg.Done()
Exit(w) ==
    /\ PoolMode /\ wpc[w] = "range" /\ jobs = <<>> /\ jobsClosed
    /\ wpc' = [wpc EXCEPT ![w] = "exited"]
    /\ UNCHANGED <<scanType, tracing, files, mainPc, jobs, jobsClosed, nextJob, wfile,
                   wcur, wres, completed, results, errLog, taken, retResults, retErr, triadVars, fileCalls, msgs,
                   spinner, reviewVars, pureVars>>

\* the count without progressMu: when another worker is counting too, both
\* read the same value of completed and one of the two increments is lost
ProgressUnlocked(w) ==
    /\ PoolMode /\ wpc[w] = "progress"
    /\ completed' = IF \E v \in Workers \ {w} : wpc[v] = "progress" THEN completed
                    ELSE completed + 1
    /\ wcur' = [wcur EXCEPT ![w] = completed + 1]
    /\ spinner' = IF completed + 1 = 1 THEN Start(spinner) ELSE spinner
    /\ wpc' = [wpc EXCEPT ![w] = "read"]
    /\ UNCHANGED <<scanType, tracing, files, mainPc, jobs, jobsClosed, nextJob, wfile,
                   wres, results, errLog, taken, retResults, retErr, triadVars, fileCalls,
                   msgs, reviewVars, pureVars>>

\* progressMu.Lock(); completed++; current := completed;
\* if current == 1 { spinner.Start() }; progressMu.Unlock()
Progress(w) ==
    /\ PoolMode /\ wpc[w] = "progress"
    /\ progressMuFree
    /\ completed' = completed + 1
    /\ wcur' = [wcur EXCEPT ![w] = completed + 1]
    /\ spinner' = IF completed + 1 = 1 THEN Start(spinner) ELSE spinner
    /\ wpc' = [wpc EXCEPT ![w] = "read"]
    /\ UNCHANGED <<scanType, tracing, files, mainPc, jobs, jobsClosed, nextJob, wfile,
                   wres, results, errLog, taken, retResults, retErr, triadVars, fileCalls, msgs,
                   reviewVars, pureVars>>

\* stagesPerFile := 2; if s.scanType == "security" { stagesPerFile = 3 }
stagesPerFile == IF scanType = "security" THEN 3 ELSE 2

\* totalStages := len(files) * stagesPerFile
totalStages == Len(files) * stagesPerFile

\* startStage := (current - 1) * stagesPerFile
startStage(w) == (wcur[w] - 1) * stagesPerFile

\* updateStatus(fmt.Sprintf("[%d/%d] ...", currentStage, totalStages, ...))
\* for the stage-th stage of worker w's file
StageMessage(w, stage) == <<startStage(w) + stage, totalStages>>

\* a model call that has been issued and has not returned
Issued(call) == [call |-> call, outcome |-> "pending"]

\* the call under way, the last of log, returns with outcome
Settle(log, outcome) == [log EXCEPT ![Len(log)].outcome = outcome]

\* a history goes on when the run keeps it
TracedCalls(old, new) == IF tracing = "calls" THEN new ELSE old

TracedMessages(old, new) == IF tracing = "messages" THEN new ELSE old

\* the file passes os.ReadFile and the two skip tests
Qualifies(f) == f.readable /\ f.size # 0 /\ ~(f.size > MaxFileSize)

\* scanFileWithProgress up to its first model call: the "Reading" message,
\* os.ReadFile and the two skip tests, which return the empty result with a
\* nil error; for a file that passes, the message of the next stage and the
\* call of that stage; for a file that cannot be read, the error path of the
\* worker up to the send of spinner.Stop().
ReadFileStep(w) ==
    LET f == files[wfile[w]] IN
    /\ PoolMode /\ wpc[w] = "read"
    /\ progressMuFree
    /\ wres' = [wres EXCEPT ![w] = EmptyResult(wfile[w])]
    /\ wpc' = [wpc EXCEPT ![w] =
                 IF ~f.readable THEN "stopping"
                 ELSE IF f.size = 0 THEN "append"
                 ELSE IF f.size > MaxFileSize THEN "append"
                 ELSE IF scanType = "security" THEN "context"
                 ELSE "custom"]
    /\ msgs' = [msgs EXCEPT ![wfile[w]] =
                  TracedMessages(@, IF Qualifies(f)
                            THEN @ \o <<StageMessage(w, 1), StageMessage(w, 2)>>
                            ELSE Append(@, StageMessage(w, 1)))]
    /\ fileCalls' = [fileCalls EXCEPT ![wfile[w]] =
                       TracedCalls(@, IF ~Qualifies(f) THEN @
                                 ELSE IF scanType = "security"
                                 THEN Append(@, Issued("context"))
                                 ELSE Append(@, Issued("custom")))]
    /\ spinner' = IF ~f.readable THEN Stop(spinner, w) ELSE spinner
    /\ UNCHANGED <<scanType, tracing, files, mainPc, jobs, jobsClosed, nextJob, wfile,
                   wcur, completed, results, errLog, taken, retResults, retErr, triadVars,
                   reviewVars, pureVars>>

\* contextAnalysis, err := s.analyzeContext(...)   returns; on success the
\* "Checking" message and the scan call, on failure the error path of the
\* worker up to the send of spinner.Stop(): progressMu is taken either way
ContextReturn(w) ==
    /\ PoolMode /\ wpc[w] = "context"
    /\ progressMuFree
    /\ \E ok \in BOOLEAN :
         /\ wpc' = [wpc EXCEPT ![w] = IF ok THEN "scan" ELSE "stopping"]
         /\ spinner' = IF ok THEN spinner ELSE Stop(spinner, w)
         /\ msgs' = [msgs EXCEPT ![wfile[w]] =
                       TracedMessages(@, IF ok THEN Append(@, StageMessage(w, 3)) ELSE @)]
         /\ fileCalls' = [fileCalls EXCEPT ![wfile[w]] =
                            TracedCalls(@, IF ok THEN Append(Settle(@, "ok"), Issued("scan"))
                                      ELSE Settle(@, "failed"))]
    /\ UNCHANGED <<scanType, tracing, files, mainPc, jobs, jobsClosed, nextJob, wfile,
                   wcur, wres, completed, results, errLog, taken, retResults, retErr, triadVars,
                   reviewVars, pureVars>>

\* findings, err := s.scanWithContext(...) returns; normalise; json.Unmarshal;
\* on an error, the error path of the worker up to the send of spinner.Stop()
ScanReturn(w) ==
    /\ PoolMode /\ wpc[w] = "scan"
    /\ \E callOk \in BOOLEAN :
       \E decodes \in (IF callOk THEN BOOLEAN ELSE {FALSE}) :
       \E decoded \in (IF decodes THEN IssueLists ELSE {<<>>}) :
         /\ fileCalls' = [fileCalls EXCEPT ![wfile[w]] =
                            TracedCalls(@, Settle(@, IF ~callOk THEN "failed"
                                                ELSE IF ~decodes THEN "undecodable"
                                                ELSE "ok"))]
         /\ IF callOk /\ decodes
            THEN /\ wres' = [wres EXCEPT ![w] = SecurityResult(wfile[w], decoded)]
                 /\ wpc' = [wpc EXCEPT ![w] = "append"]
                 /\ spinner' = spinner
            ELSE /\ progressMuFree
                 /\ wres' = wres
                 /\ wpc' = [wpc EXCEPT ![w] = "stopping"]
                 /\ spinner' = Stop(spinner, w)
    /\ UNCHANGED <<scanType, tracing, files, mainPc, jobs, jobsClosed, nextJob, wfile,
                   wcur, completed, results, errLog, taken, retResults, retErr, triadVars,
                   msgs, reviewVars, pureVars>>

\* response, err := s.client.Generate(...) returns (custom mode); on an
\* error, the error path of the worker up to the send of spinner.Stop()
CustomReturn(w) ==
    /\ PoolMode /\ wpc[w] = "custom"
    /\ \E callOk \in BOOLEAN :
       \E response \in (IF callOk THEN CustomResponses ELSE {<<>>}) :
         /\ fileCalls' = [fileCalls EXCEPT ![wfile[w]] =
                            TracedCalls(@, Settle(@, IF callOk THEN "ok" ELSE "failed"))]
         /\ IF callOk
            THEN /\ wres' = [wres EXCEPT ![w] = CustomResult(wfile[w], response)]
                 /\ wpc' = [wpc EXCEPT ![w] = "append"]
                 /\ spinner' = spinner
            ELSE /\ progressMuFree
                 /\ wres' = wres
                 /\ wpc' = [wpc EXCEPT ![w] = "stopping"]
                 /\ spinner' = Stop(spinner, w)
    /\ UNCHANGED <<scanType, tracing, files, mainPc, jobs, jobsClosed, nextJob, wfile,
                   wcur, completed, results, errLog, taken, retResults, retErr, triadVars,
                   msgs, reviewVars, pureVars>>

\* a worker that gives the batch up on a failure: it reports the file, drops
\* what is still queued and leaves its loop
ReportFailureAbort(w) ==
    /\ PoolMode /\ wpc[w] = "stopping" /\ w \notin spinner.senders
    /\ errLog' = errLog \cup {wfile[w]}
    /\ spinner' = Start(spinner)
    /\ jobs' = <<>>
    /\ wpc' = [wpc EXCEPT ![w] = "range"]
    /\ wfile' = [wfile EXCEPT ![w] = 0]
    /\ wcur' = [wcur EXCEPT ![w] = 0]
    /\ wres' = [wres EXCEPT ![w] = NoResult]
    /\ UNCHANGED <<scanType, tracing, files, mainPc, jobsClosed, nextJob,
                   completed, results, taken, retResults, retErr, triadVars, fileCalls, msgs,
                   reviewVars, pureVars>>

\* a worker that starts the failed file over instead of going on to the next
ReportFailureRetry(w) ==
    /\ PoolMode /\ wpc[w] = "stopping" /\ w \notin spinner.senders
    /\ errLog' = errLog \cup {wfile[w]}
    /\ spinner' = Start(spinner)
    /\ wpc' = [wpc EXCEPT ![w] = "read"]
    /\ UNCHANGED <<scanType, tracing, files, mainPc, jobs, jobsClosed, nextJob, wfile, wcur, wres,
                   completed, results, taken, retResults, retErr, triadVars, fileCalls, msgs,
                   reviewVars, pureVars>>

\* spinner.Stop() returns; Fprintf(os.Stderr, "Failed to scan ...");
\* spinner.Start(); progressMu.Unlock(); continue }
ReportFailure(w) ==
    /\ PoolMode /\ wpc[w] = "stopping" /\ w \notin spinner.senders
    /\ errLog' = errLog \cup {wfile[w]}
    /\ spinner' = Start(spinner)
    /\ wpc' = [wpc EXCEPT ![w] = "range"]
    /\ wfile' = [wfile EXCEPT ![w] = 0]
    /\ wcur' = [wcur EXCEPT ![w] = 0]
    /\ wres' = [wres EXCEPT ![w] = NoResult]
    /\ UNCHANGED <<scanType, tracing, files, mainPc, jobs, jobsClosed, nextJob,
                   completed, results, taken, retResults, retErr, triadVars, fileCalls, msgs,
                   reviewVars, pureVars>>

\* an append without the mutex: when another worker is appending too, both
\* read the same slice and one of the two results is lost
AppendResultUnlocked(w) ==
    /\ PoolMode /\ wpc[w] = "append"
    /\ results' = IF \E v \in Workers \ {w} : wpc[v] = "append" THEN results
                  ELSE Append(results, wres[w])
    /\ wpc' = [wpc EXCEPT ![w] = "range"]
    /\ wfile' = [wfile EXCEPT ![w] = 0]
    /\ wcur' = [wcur EXCEPT ![w] = 0]
    /\ wres' = [wres EXCEPT ![w] = NoResult]
    /\ UNCHANGED <<scanType, tracing, files, mainPc, jobs, jobsClosed, nextJob,
                   completed, errLog, taken, retResults, retErr, triadVars, fileCalls, msgs,
                   spinner, reviewVars, pureVars>>

\* mu.Lock(); results = append(results, result); mu.Unlock()
AppendResult(w) ==
    /\ PoolMode /\ wpc[w] = "append"
    /\ results' = Append(results, wres[w])
    /\ wpc' = [wpc EXCEPT ![w] = "range"]
    /\ wfile' = [wfile EXCEPT ![w] = 0]
    /\ wcur' = [wcur EXCEPT ![w] = 0]
    /\ wres' = [wres EXCEPT ![w] = NoResult]
    /\ UNCHANGED <<scanType, tracing, files, mainPc, jobs, jobsClosed, nextJob,
                   completed, errLog, taken, retResults, retErr, triadVars, fileCalls, msgs,
                   spinner, reviewVars, pureVars>>

WorkerStep(w) ==
    \/ Take(w)
    \/ Exit(w)
    \/ Progress(w)
    \/ ReadFileStep(w)
    \/ ContextReturn(w)
    \/ ScanReturn(w)
    \/ CustomReturn(w)
    \/ ReportFailure(w)
    \/ AppendResult(w)

(***************************************************************************)
(* scanTriadFiles, called by ScanFiles when scanType is "triad".           *)
(***************************************************************************)
TriadMode == scanType = "triad"

\* a ScanFiles that hands back the report decoded so far together with the error
TriadFailKeepsReport(why) ==
    /\ tpc' = "done"
    /\ mainPc' = "done"
    /\ retResults' = IF confLog # <<>> THEN <<TriadResult(lastReport, TRUE)>> ELSE <<>>
    /\ retErr' = why

\* ScanFiles: result, err := s.scanTriadFiles(files); if err != nil return nil, err
TriadFail(why) ==
    /\ tpc' = "done"
    /\ mainPc' = "done"
    /\ retResults' = <<>>
    /\ retErr' = why

\* ScanFiles: return []ScanResult{result}, nil
TriadSucceed(report, ran) ==
    /\ tpc' = "done"
    /\ mainPc' = "done"
    /\ retResults' = <<TriadResult(report, ran)>>
    /\ retErr' = "nil"

\* the files loop: a read error aborts; empty and oversize files are left out;
\* with nothing left the empty result is returned; otherwise round 1 starts
\* with the attacker call.
TriadRead ==
    LET qualifying == {i \in 1..Len(files) : ~SkippedSize(files[i].size)} IN
    /\ TriadMode /\ tpc = "read"
    /\ IF Len(files) = 0
       THEN /\ TriadSucceed(ZeroReport, FALSE)
            /\ UNCHANGED <<codeByFile, round, calls, prompts>>
       ELSE IF \E i \in 1..Len(files) : ~files[i].readable
       THEN /\ TriadFail("failed to read file")
            /\ UNCHANGED <<codeByFile, round, calls, prompts>>
       ELSE IF qualifying = {}
       THEN /\ TriadSucceed(ZeroReport, FALSE)
            /\ UNCHANGED <<codeByFile, round, calls, prompts>>
       ELSE /\ codeByFile' = qualifying
            /\ round' = 1
            /\ calls' = calls + 1
            /\ tpc' = "attacker"
            /\ prompts' = Append(prompts, getTriadAttackerPrompt(1, summary))
            /\ UNCHANGED <<mainPc, retResults, retErr>>
    /\ UNCHANGED <<scanType, tracing, files, jobs, jobsClosed, nextJob, wpc, wfile, wcur,
                   wres, completed, results, errLog, taken, lastReport, summary,
                   lastResp, confLog, callLog, attackerResp, fileCalls, msgs,
                   spinner, reviewVars, pureVars>>

\* the attacker call returns; on success the defender call is issued
AttackerReturn ==
    /\ TriadMode /\ tpc = "attacker"
    /\ \E ok \in BOOLEAN, resp \in AttackerResponses(round) :
         /\ callLog' = Append(callLog, IF ok THEN Returned("ok", resp)
                                       ELSE Returned("failed", <<>>))
         /\ IF ok
            THEN /\ tpc' = "defender"
                 /\ calls' = calls + 1
                 /\ attackerResp' = resp
                 /\ prompts' = Append(prompts,
                                      getTriadDefenderPrompt(round, summary, resp))
                 /\ UNCHANGED <<mainPc, retResults, retErr>>
            ELSE /\ TriadFail("attacker pass failed")
                 /\ UNCHANGED <<calls, attackerResp, prompts>>
    /\ UNCHANGED <<scanType, tracing, files, jobs, jobsClosed, nextJob, wpc, wfile, wcur,
                   wres, completed, results, errLog, taken, codeByFile, round,
                   lastReport, summary, lastResp, confLog, fileCalls, msgs,
                   spinner, reviewVars, pureVars>>

\* the defender call returns; on success the auditor call is issued
DefenderReturn ==
    /\ TriadMode /\ tpc = "defender"
    /\ \E ok \in BOOLEAN, resp \in DefenderResponses(round) :
         /\ callLog' = Append(callLog, IF ok THEN Returned("ok", resp)
                                       ELSE Returned("failed", <<>>))
         /\ IF ok
            THEN /\ tpc' = "auditor"
                 /\ calls' = calls + 1
                 /\ prompts' = Append(prompts,
                                      getTriadAuditorPrompt(round, summary,
                                                            attackerResp, resp))
                 /\ UNCHANGED <<mainPc, retResults, retErr>>
            ELSE /\ TriadFail("defender pass failed")
                 /\ UNCHANGED <<calls, prompts>>
    /\ UNCHANGED <<scanType, tracing, files, jobs, jobsClosed, nextJob, wpc, wfile, wcur,
                   wres, completed, results, errLog, taken, codeByFile, round,
                   lastReport, summary, lastResp, confLog, attackerResp,
                   fileCalls, msgs,
                   spinner, reviewVars, pureVars>>

\* summary = TrimSpace(lastReport.Summary); if summary == "" { truncateText(...) }
NextSummary(report, obj) ==
    IF TrimSpace(report.summary) = <<>> THEN truncateText(RawText(obj), 1200)
    ELSE TrimSpace(report.summary)

\* the rest of a round once the auditor's response has been decoded into
\* report: the new summary, then break on HIGH, the next round, or the end of
\* the loop; after the loop the report is serialised and returned.
FinishRound(report, obj) ==
    /\ lastReport' = report
    /\ summary' = NextSummary(report, obj)
    /\ IF IsHighConfidence(report.confidence) \/ round >= MaxRounds
       THEN /\ TriadSucceed(report, TRUE)
            /\ UNCHANGED <<round, calls, prompts>>
       ELSE /\ round' = round + 1
            /\ calls' = calls + 1
            /\ tpc' = "attacker"
            /\ prompts' = Append(prompts,
                                 getTriadAttackerPrompt(round + 1, NextSummary(report, obj)))
            /\ UNCHANGED <<mainPc, retResults, retErr>>

\* the auditor call returns: normalise, json.Unmarshal into lastReport
AuditorReturn ==
    /\ TriadMode /\ tpc = "auditor"
    /\ \E ok \in BOOLEAN :
       \E resp \in (IF ok THEN AuditorResponses ELSE {Undecodable}) :
         /\ callLog' = Append(callLog, IF ~ok THEN Returned("failed", <<>>)
                                       ELSE IF ~resp.decodes
                                       THEN Returned("undecodable", <<>>)
                                       ELSE Returned("ok", <<>>))
         /\ IF ~ok
            THEN /\ TriadFail("auditor pass failed")
                 /\ UNCHANGED <<round, lastReport, summary, lastResp, confLog, calls,
                                prompts>>
            ELSE IF ~resp.decodes
            THEN /\ TriadFail("auditor response parse failed")
                 /\ lastResp' = resp
                 /\ UNCHANGED <<round, lastReport, summary, confLog, calls, prompts>>
            ELSE /\ lastResp' = resp
                 /\ confLog' = Append(confLog, resp.confidence)
                 /\ FinishRound(Unmarshal(lastReport, resp), resp)
    /\ UNCHANGED <<scanType, tracing, files, jobs, jobsClosed, nextJob, wpc, wfile, wcur,
                   wres, completed, results, errLog, taken, codeByFile, attackerResp,
                   fileCalls, msgs,
                   spinner, reviewVars, pureVars>>

NextTriad ==
    \/ TriadRead
    \/ AttackerReturn
    \/ DefenderReturn
    \/ AuditorReturn

\* the ScanFiles goroutine in security / custom mode
MainStep ==
    \/ Enqueue
    \/ CloseJobs
    \/ WaitAndStop
    \/ WaitAndReturn

\* ScanFiles in security / custom mode: its own goroutine, the workers and
\* the render goroutine of the spinner
NextPool ==
    \/ MainStep
    \/ RenderExit
    \/ \E w \in Workers : WorkerStep(w)

NextScan ==
    \/ NextPool
    \/ NextTriad

(***************************************************************************)
(* The fix applicator.  A file or a suggested fix is a text: the sequence  *)
(* of its lines (what strings.Split(text, "\n") returns, never empty), a   *)
(* line being a sequence of characters.  The empty text is << <<>> >>.     *)
(***************************************************************************)
EmptyText == << <<>> >>

IsBlank(line) == TrimSpace(line) = <<>>

RECURSIVE DropLeadingBlank(_)
DropLeadingBlank(text) ==
    IF text # <<>> /\ IsBlank(Head(text)) THEN DropLeadingBlank(Tail(text)) ELSE text

RECURSIVE DropTrailingBlank(_)
DropTrailingBlank(text) ==
    IF text # <<>> /\ IsBlank(text[Len(text)])
    THEN DropTrailingBlank(SubSeq(text, 1, Len(text) - 1)) ELSE text

\* strings.TrimSpace of a text with line breaks: leading and trailing blank
\* lines go, the first line loses its leading and the last its trailing space
TextTrimSpace(text) ==
    LET core == DropTrailingBlank(DropLeadingBlank(text)) IN
    IF core = <<>> THEN EmptyText
    ELSE IF Len(core) = 1 THEN <<TrimSpace(core[1])>>
    ELSE <<TrimLeft(core[1])>> \o SubSeq(core, 2, Len(core) - 1)
         \o <<TrimRight(core[Len(core)])>>

\* strings.TrimSuffix(text, "\n")
TrimSuffixNewline(text) ==
    IF Len(text) >= 2 /\ text[Len(text)] = <<>>
    THEN SubSeq(text, 1, Len(text) - 1) ELSE text

\* a line whose trimmed text starts with "CODE:"
IsCodeMarker(line) == TrimSpace(line) # <<>> /\ Head(TrimSpace(line)) = "CODE:"

\* a markdown fence (three backquotes), bare or tagged with a language
IsFenceChar(c) == c = "FENCE" \/ c = "FENCEgo"

\* a line whose trimmed text starts with a fence
IsFenceLine(line) == TrimSpace(line) # <<>> /\ IsFenceChar(Head(TrimSpace(line)))

RECURSIVE CodeSection(_, _)
\* the loop of extractCodeFromResponse: the lines after a CODE: marker, fences left out
CodeSection(text, inCodeSection) ==
    IF text = <<>> THEN <<>>
    ELSE IF IsCodeMarker(Head(text)) THEN CodeSection(Tail(text), TRUE)
    ELSE IF inCodeSection /\ ~IsFenceLine(Head(text))
    THEN <<Head(text)>> \o CodeSection(Tail(text), inCodeSection)
    ELSE CodeSection(Tail(text), inCodeSection)

RECURSIVE RemoveFences(_)
\* the strings.ReplaceAll calls that delete every fence
RemoveFences(line) ==
    IF line = <<>> THEN <<>>
    ELSE IF IsFenceChar(Head(line)) THEN RemoveFences(Tail(line))
    ELSE <<Head(line)>> \o RemoveFences(Tail(line))

extractCodeFromResponse(response) ==
    LET codeLines == CodeSection(response, FALSE) IN
    IF codeLines = <<>>
    THEN TextTrimSpace([i \in 1..Len(TextTrimSpace(response)) |->
                          RemoveFences(TextTrimSpace(response)[i])])
    ELSE TextTrimSpace(codeLines)

\* the leading white space of a line
RECURSIVE LeadingSpace(_)
LeadingSpace(line) ==
    IF line # <<>> /\ IsSpace(Head(line))
    THEN <<Head(line)>> \o LeadingSpace(Tail(line)) ELSE <<>>

\* the indentation of a line in columns, a tab counting 4
RECURSIVE IndentColumns(_)
IndentColumns(line) ==
    IF line = <<>> THEN 0
    ELSE IF Head(line) = " " THEN 1 + IndentColumns(Tail(line))
    ELSE IF Head(line) = "\t" THEN 4 + IndentColumns(Tail(line))
    ELSE 0

Repeat(c, k) == [i \in 1..k |-> c]

Min(S) == CHOOSE x \in S : \A y \in S : x <= y

\* minFixIndent: the least indentation of a non-blank fix line, 0 without one
MinFixIndent(fixLines) ==
    LET nonBlank == {i \in 1..Len(fixLines) : ~IsBlank(fixLines[i])} IN
    IF nonBlank = {} THEN 0
    ELSE Min({IndentColumns(fixLines[i]) : i \in nonBlank})

\* a re-indentation that pads with spaces whatever the original indent holds
ReindentLineSpacesOnly(fixLine, originalIndent, minFixIndent) ==
    IF IsBlank(fixLine) THEN <<>>
    ELSE originalIndent \o Repeat(" ", IndentColumns(fixLine) - minFixIndent)
         \o TrimSpace(fixLine)

\* one fix line re-indented under originalIndent
ReindentLine(fixLine, originalIndent, minFixIndent) ==
    LET relativeIndent == IndentColumns(fixLine) - minFixIndent IN
    IF IsBlank(fixLine) THEN <<>>
    ELSE IF \E i \in 1..Len(originalIndent) : originalIndent[i] = "\t"
    THEN originalIndent \o Repeat("\t", relativeIndent \div 4)
         \o Repeat(" ", relativeIndent % 4) \o TrimSpace(fixLine)
    ELSE originalIndent \o Repeat(" ", relativeIndent) \o TrimSpace(fixLine)

Reindent(fixLines, originalIndent) ==
    [i \in 1..Len(fixLines) |->
        ReindentLine(fixLines[i], originalIndent, MinFixIndent(fixLines))]

\* the clamp of applyFix: lineStart into [1, len(lines)], then lineEnd into
\* [lineStart, len(lines)]
ClampStart(lineStart, lineCount) ==
    IF lineStart < 1 THEN (IF 1 > lineCount THEN lineCount ELSE 1)
    ELSE IF lineStart > lineCount THEN lineCount
    ELSE lineStart

\* a clamp that raises lineEnd to lineStart but lets it run past the last line
ClampEndLowerOnly(lineEnd, clampedStart, lineCount) ==
    IF lineEnd < clampedStart THEN clampedStart ELSE lineEnd

ClampEnd(lineEnd, clampedStart, lineCount) ==
    IF lineEnd < clampedStart
    THEN (IF clampedStart > lineCount THEN lineCount ELSE clampedStart)
    ELSE IF lineEnd > lineCount THEN lineCount
    ELSE lineEnd

\* a splice that keeps the line at lineEnd behind the fix
SpliceKeepsLastLine(fileLines, lineStart, lineEnd, fixLines) ==
    SubSeq(fileLines, 1, lineStart - 1) \o fixLines
    \o SubSeq(fileLines, lineEnd, Len(fileLines))

\* newLines: lines[:lineStart-1] + fixLines + lines[lineEnd:]
Splice(fileLines, lineStart, lineEnd, fixLines) ==
    SubSeq(fileLines, 1, lineStart - 1) \o fixLines
    \o (IF lineEnd < Len(fileLines) THEN SubSeq(fileLines, lineEnd + 1, Len(fileLines))
        ELSE <<>>)

\* applyFix on the file content it has read: the clamped range and the
\* content it writes
FixedContent(fileLines, issue) ==
    LET lineStart == ClampStart(issue.lineStart, Len(fileLines))
        lineEnd == ClampEnd(issue.lineEnd, lineStart, Len(fileLines))
        fixLines == Reindent(TrimSuffixNewline(issue.suggestedFix),
                             LeadingSpace(fileLines[lineStart]))
    IN [lineStart |-> lineStart, lineEnd |-> lineEnd, lineCount |-> Len(fileLines),
        newLines |-> Splice(fileLines, lineStart, lineEnd, fixLines)]

\* ReviewFindings before it calls applyFix: the code is extracted from the
\* suggested fix, and a fix longer than the reported range widens the range
\* to the fix's length, up to the end of the (cached) file
WidenedIssue(issue, cachedLines) ==
    LET fix == extractCodeFromResponse(issue.suggestedFix)
        fixLineCount == Len(TextTrimSpace(fix))
        originalLineCount == issue.lineEnd - issue.lineStart + 1
        wideEnd == issue.lineStart + fixLineCount - 1
    IN [issue EXCEPT
          !.suggestedFix = fix,
          !.lineEnd = IF fixLineCount > originalLineCount
                      THEN (IF wideEnd > Len(cachedLines) THEN Len(cachedLines) ELSE wideEnd)
                      ELSE issue.lineEnd]

(***************************************************************************)
(* The inputs of a review session.                                         *)
(***************************************************************************)
\* line i of the file under review, behind some indentation
OrigLine(i, indent) == indent \o <<"o" \o ToString(i)>>

OrigFile(n, indent) == [i \in 1..n |-> OrigLine(i, indent)]

Indents == {<<>>, <<"\t">>, <<" ", " ">>}

\* a suggested fix of m lines, bare
PlainFix(m) == [j \in 1..m |-> <<"f" \o ToString(j)>>]

\* a fix whose lines after the first are indented further
NestedFix(m) ==
    [j \in 1..m |-> (IF j = 1 THEN <<" ">> ELSE <<" ", "\t">>) \o <<"f" \o ToString(j)>>]

\* a fix wrapped in a language-tagged fence, and one behind a CODE: marker
FencedFix == << <<"FENCEgo">>, <<"f1">>, <<"FENCE">> >>
MarkedFix == << <<"note">>, <<"CODE:">>, <<"FENCE">>, <<" ", "f1">>, <<"f2">>, <<"FENCE">> >>

\* a fix with a line of white space only between two lines of code
GappedFix == << <<"f1">>, <<" ">>, <<"\t", "f3">> >>

WideFixes ==
    {PlainFix(m) : m \in 1..MaxFixLines} \cup
    {NestedFix(2), GappedFix, FencedFix, MarkedFix, EmptyText}

\* line numbers as a model reports them: negative, zero, in range, past the end
LineNumbers == (0 - 1)..(MaxLines + 1)

\* one finding with any reported range, on a file of any length
WideIssues ==
    [lineStart : LineNumbers, lineEnd : LineNumbers, fixAvailable : {TRUE},
     suggestedFix : WideFixes]
    \cup
    [lineStart : LineNumbers, lineEnd : LineNumbers, fixAvailable : {FALSE},
     suggestedFix : {EmptyText}]

\* findings inside the file, for sessions of several findings: one without a
\* fix, one whose fix is shorter than its range, one whose fix is longer
NarrowIssues ==
    UNION {
      {[lineStart |-> ls, lineEnd |-> ls, fixAvailable |-> FALSE,
        suggestedFix |-> EmptyText],
       [lineStart |-> ls, lineEnd |-> ls + 1, fixAvailable |-> TRUE,
        suggestedFix |-> PlainFix(1)],
       [lineStart |-> ls, lineEnd |-> ls, fixAvailable |-> TRUE,
        suggestedFix |-> PlainFix(2)]} : ls \in 1..MaxLines}

\* what sort.Slice(findings, LineStart descending) can leave: any order of the
\* findings in which lineStart never increases
SortedDescending(fs) ==
    \A i \in 1..(Len(fs) - 1) : fs[i].lineStart >= fs[i + 1].lineStart

StrictlyDescending(fs) ==
    \A i \in 1..(Len(fs) - 1) : fs[i].lineStart > fs[i + 1].lineStart

NarrowSessions ==
    {fs \in UNION {[1..n -> NarrowIssues] : n \in 2..MaxFindings} : SortedDescending(fs)}

NoApply ==
    [called |-> FALSE, clamped |-> FALSE, ok |-> FALSE, idx |-> 0, lineStart |-> 0,
     lineEnd |-> 0, lineCount |-> 0, fixLineCount |-> 0, before |-> <<>>]

\* ReviewFindings after the sort and the first os.ReadFile
BeginReview(fs, file) ==
    /\ rpc = "browse"
    /\ findings = fs
    /\ currentIdx = 0
    /\ appliedFixes = {}
    /\ backupCreated = FALSE
    /\ content = file
    /\ lines = file
    /\ disk = file
    /\ backup = <<>>
    /\ rret = "running"
    /\ orig = file
    /\ fileWritten = FALSE
    /\ backupWrites = 0
    /\ lastApply = NoApply

InitReview ==
    \/ \E issue \in WideIssues, n \in 1..MaxLines, indent \in Indents :
         BeginReview(<<issue>>, OrigFile(n, indent))
    \/ \E fs \in NarrowSessions : BeginReview(fs, OrigFile(MaxLines, <<>>))

(***************************************************************************)
(* The review loop: one action per key.                                    *)
(***************************************************************************)
Browsing == rpc = "browse"

issueOnScreen == findings[currentIdx + 1]

LastIdx == Len(findings) - 1

\* How an apply goes: the first I/O call of it that fails, if any.  A failed
\* os.WriteFile leaves the file as it was (it could not be opened) or
\* truncated.
ApplyOutcomes ==
    {"backupUnopened", "backupTruncated", "readFails", "writeUnopened",
     "writeTruncated", "reloadFails", "ok"}

\* a session that goes on with the apply when the backup could not be written
BackupErrorIgnored(outcome) == FALSE

BackupFails(outcome) == outcome \in {"backupUnopened", "backupTruncated"}

\* a session that writes the backup before every apply
NeedsBackupAlways(created) == TRUE

\* if !backupCreated
NeedsBackup(created) == ~created

\* a session that goes on with the content it read when it started
ReloadSkipped(cached, onDisk) == cached

\* content, err = os.ReadFile(filePath) after the fix: what is on disk
Reload(cached, onDisk) == onDisk

\* the applyFix call and what follows it in case "a"
ApplyFixStep(issue, outcome) ==
    LET fixed == FixedContent(disk, issue)
        called == [NoApply EXCEPT !.called = TRUE, !.idx = currentIdx,
                                  !.before = disk,
                                  !.fixLineCount = Len(issue.suggestedFix)]
        clamped == [called EXCEPT !.clamped = TRUE, !.lineStart = fixed.lineStart,
                                  !.lineEnd = fixed.lineEnd,
                                  !.lineCount = fixed.lineCount]
    IN
    IF ~issue.fixAvailable \/ issue.suggestedFix = EmptyText \/ outcome = "readFails"
    THEN \* "no fix available", or "failed to read file"
         /\ lastApply' = called
         /\ UNCHANGED <<rpc, currentIdx, appliedFixes, content, lines, disk, rret,
                        fileWritten>>
    ELSE IF outcome \in {"writeUnopened", "writeTruncated"}
    THEN \* "failed to write file"
         /\ lastApply' = clamped
         /\ disk' = IF outcome = "writeTruncated" THEN EmptyText ELSE disk
         /\ fileWritten' = (fileWritten \/ outcome = "writeTruncated")
         /\ UNCHANGED <<rpc, currentIdx, appliedFixes, content, lines, rret>>
    ELSE /\ lastApply' = [clamped EXCEPT !.ok = TRUE]
         /\ disk' = fixed.newLines
         /\ fileWritten' = TRUE
         /\ appliedFixes' = appliedFixes \cup {currentIdx}
         /\ IF outcome = "reloadFails"
            THEN \* "Failed to reload file": return err
                 /\ rpc' = "done"
                 /\ rret' = "err"
                 /\ UNCHANGED <<currentIdx, content, lines>>
            ELSE /\ content' = Reload(content, fixed.newLines)
                 /\ lines' = Reload(lines, fixed.newLines)
                 /\ IF currentIdx < LastIdx
                    THEN /\ currentIdx' = currentIdx + 1
                         /\ UNCHANGED <<rpc, rret>>
                    ELSE /\ rpc' = "done"
                         /\ rret' = "nil"
                         /\ UNCHANGED currentIdx

\* a session that does not look a finding up in appliedFixes
AppliedNeverChecked(idx) == FALSE

\* if appliedFixes[currentIdx]
AlreadyApplied(idx) == idx \in appliedFixes

\* the body of case "a" for a finding with a fix that is not applied yet
ApplyAttempt(outcome) ==
    /\ Browsing
    /\ issueOnScreen.fixAvailable /\ ~AlreadyApplied(currentIdx)
    /\ BackupFails(outcome) => NeedsBackup(backupCreated)
    /\ IF BackupFails(outcome)
       THEN \* "Failed to create backup": continue
            /\ backup' = IF outcome = "backupTruncated" THEN <<EmptyText>>
                         ELSE backup
            /\ UNCHANGED <<rpc, currentIdx, appliedFixes, backupCreated,
                           content, lines, disk, rret, fileWritten,
                           backupWrites, lastApply>>
       ELSE /\ IF NeedsBackup(backupCreated)
               THEN /\ backup' = <<content>>
                    /\ backupWrites' = backupWrites + 1
                    /\ backupCreated' = TRUE
               ELSE UNCHANGED <<backup, backupWrites, backupCreated>>
            /\ ApplyFixStep(WidenedIssue(issueOnScreen, lines), outcome)
    /\ UNCHANGED <<findings, orig, scanVars, pureVars>>

\* case "a"
Apply ==
    /\ Browsing
    /\ IF ~issueOnScreen.fixAvailable \/ AlreadyApplied(currentIdx)
       THEN UNCHANGED vars
       ELSE \E outcome \in ApplyOutcomes : ApplyAttempt(outcome)

\* case "s": the diff is shown until Enter is pressed
Show ==
    /\ Browsing
    /\ rpc' = IF issueOnScreen.fixAvailable THEN "showing" ELSE "browse"
    /\ UNCHANGED <<findings, currentIdx, appliedFixes, backupCreated, content, lines,
                   disk, backup, rret, orig, fileWritten, backupWrites, lastApply,
                   scanVars, pureVars>>

ShowDone ==
    /\ rpc = "showing"
    /\ rpc' = "browse"
    /\ UNCHANGED <<findings, currentIdx, appliedFixes, backupCreated, content, lines,
                   disk, backup, rret, orig, fileWritten, backupWrites, lastApply,
                   scanVars, pureVars>>

\* an ignore that also marks the finding as dealt with
IgnoreMarksApplied ==
    /\ Browsing
    /\ appliedFixes' = appliedFixes \cup {currentIdx}
    /\ IF currentIdx < LastIdx
       THEN /\ currentIdx' = currentIdx + 1
            /\ UNCHANGED <<rpc, rret>>
       ELSE /\ rpc' = "done"
            /\ rret' = "nil"
            /\ UNCHANGED currentIdx
    /\ UNCHANGED <<findings, backupCreated, content, lines, disk,
                   backup, orig, fileWritten, backupWrites, lastApply, scanVars, pureVars>>

\* case "i"
Ignore ==
    /\ Browsing
    /\ IF currentIdx < LastIdx
       THEN /\ currentIdx' = currentIdx + 1
            /\ UNCHANGED <<rpc, rret>>
       ELSE /\ rpc' = "done"
            /\ rret' = "nil"
            /\ UNCHANGED currentIdx
    /\ UNCHANGED <<findings, appliedFixes, backupCreated, content, lines, disk,
                   backup, orig, fileWritten, backupWrites, lastApply, scanVars, pureVars>>

\* a Next that moves on without looking at the number of findings
NextFindingUnbounded ==
    /\ Browsing
    /\ currentIdx' = currentIdx + 1
    /\ UNCHANGED <<rpc, findings, appliedFixes, backupCreated, content, lines, disk,
                   backup, rret, orig, fileWritten, backupWrites, lastApply, scanVars, pureVars>>

\* case "n"
NextFinding ==
    /\ Browsing
    /\ currentIdx' = IF currentIdx < LastIdx THEN currentIdx + 1 ELSE currentIdx
    /\ UNCHANGED <<rpc, findings, appliedFixes, backupCreated, content, lines, disk,
                   backup, rret, orig, fileWritten, backupWrites, lastApply, scanVars, pureVars>>

\* case "p"
PreviousFinding ==
    /\ Browsing
    /\ currentIdx' = IF currentIdx > 0 THEN currentIdx - 1 ELSE currentIdx
    /\ UNCHANGED <<rpc, findings, appliedFixes, backupCreated, content, lines, disk,
                   backup, rret, orig, fileWritten, backupWrites, lastApply, scanVars, pureVars>>

\* case "q"
Quit ==
    /\ Browsing
    /\ rpc' = "done"
    /\ rret' = "nil"
    /\ UNCHANGED <<findings, currentIdx, appliedFixes, backupCreated, content, lines,
                   disk, backup, orig, fileWritten, backupWrites, lastApply, scanVars, pureVars>>

\* default: "Invalid choice"
InvalidChoice ==
    /\ Browsing
    /\ UNCHANGED vars

NextReview ==
    \/ Apply
    \/ Show
    \/ ShowDone
    \/ Ignore
    \/ NextFinding
    \/ PreviousFinding
    \/ Quit
    \/ InvalidChoice

(***************************************************************************)
(* The specifications: a ScanFiles call, and a review session.             *)
(***************************************************************************)
\* no review session
ReviewUnused ==
    /\ rpc = "unused"
    /\ findings = <<>>
    /\ currentIdx = 0
    /\ appliedFixes = {}
    /\ backupCreated = FALSE
    /\ content = EmptyText
    /\ lines = EmptyText
    /\ disk = EmptyText
    /\ backup = <<>>
    /\ rret = "unused"
    /\ orig = EmptyText
    /\ fileWritten = FALSE
    /\ backupWrites = 0
    /\ lastApply = NoApply

\* no ScanFiles call
ScanUnused ==
    /\ scanType = "unused"
    /\ tracing = "none"
    /\ files = <<>>
    /\ mainPc = "unused"
    /\ jobs = <<>>
    /\ jobsClosed = FALSE
    /\ nextJob = 1
    /\ wpc = [w \in Workers |-> "unstarted"]
    /\ wfile = [w \in Workers |-> 0]
    /\ wcur = [w \in Workers |-> 0]
    /\ wres = [w \in Workers |-> NoResult]
    /\ completed = 0
    /\ results = <<>>
    /\ errLog = {}
    /\ taken = <<>>
    /\ fileCalls = <<>>
    /\ msgs = <<>>
    /\ spinner = NewSpinner
    /\ retResults = <<>>
    /\ retErr = "unset"
    /\ tpc = "unused"
    /\ codeByFile = {}
    /\ round = 0
    /\ lastReport = ZeroReport
    /\ summary = <<>>
    /\ lastResp = Undecodable
    /\ confLog = <<>>
    /\ calls = 0
    /\ callLog = <<>>
    /\ attackerResp = <<>>
    /\ prompts = <<>>

(***************************************************************************)
(* The response normalizer.  A response is a sequence of characters; the   *)
(* three backticks of a fence and the word json count as one character     *)
(* each, which no function here looks into.                                *)
(***************************************************************************)
ResponseChars == {"FENCE", "json", "\n", "\t", "\"", "\\", "x"}

Responses == UNION {[1..n -> ResponseChars] : n \in 0..MaxChars}

\* strings.HasPrefix
HasPrefix(t, prefix) ==
    Len(t) >= Len(prefix) /\ SubSeq(t, 1, Len(prefix)) = prefix

\* strings.TrimPrefix
TrimPrefix(t, prefix) ==
    IF HasPrefix(t, prefix) THEN SubSeq(t, Len(prefix) + 1, Len(t)) ELSE t

\* strings.TrimSuffix
TrimSuffix(t, suffix) ==
    IF Len(t) >= Len(suffix) /\ SubSeq(t, Len(t) - Len(suffix) + 1, Len(t)) = suffix
    THEN SubSeq(t, 1, Len(t) - Len(suffix))
    ELSE t

\* a fence-strip that takes the opening marker off and leaves the closing one
StripOpeningFenceOnly(response) ==
    LET trimmed == TrimSpace(response) IN
    TrimSpace(IF HasPrefix(trimmed, <<"FENCE", "json">>)
              THEN TrimPrefix(trimmed, <<"FENCE", "json">>)
              ELSE TrimPrefix(trimmed, <<"FENCE">>))

\* stripMarkdownCodeFences
stripMarkdownCodeFences(response) ==
    LET trimmed == TrimSpace(response)
        opened == IF HasPrefix(trimmed, <<"FENCE", "json">>)
                  THEN TrimPrefix(trimmed, <<"FENCE", "json">>)
                  ELSE IF HasPrefix(trimmed, <<"FENCE">>)
                  THEN TrimPrefix(trimmed, <<"FENCE">>)
                  ELSE trimmed
    IN TrimSpace(TrimSuffix(opened, <<"FENCE">>))

\* the loop of fixJSONStringEscaping from position i on
RECURSIVE EscapeFrom(_, _, _, _)
EscapeFrom(jsonStr, i, inString, escaped) ==
    IF i > Len(jsonStr) THEN <<>>
    ELSE LET ch == jsonStr[i] IN
         IF escaped THEN <<ch>> \o EscapeFrom(jsonStr, i + 1, inString, FALSE)
         ELSE IF ch = "\\" THEN <<ch>> \o EscapeFrom(jsonStr, i + 1, inString, TRUE)
         ELSE IF ch = "\"" THEN <<ch>> \o EscapeFrom(jsonStr, i + 1, ~inString, FALSE)
         ELSE IF inString /\ ch = "\n"
         THEN <<"\\", "n">> \o EscapeFrom(jsonStr, i + 1, inString, FALSE)
         ELSE IF inString /\ ch = "\t"
         THEN <<"\\", "t">> \o EscapeFrom(jsonStr, i + 1, inString, FALSE)
         ELSE <<ch>> \o EscapeFrom(jsonStr, i + 1, inString, FALSE)

\* fixJSONStringEscaping
fixJSONStringEscaping(jsonStr) == EscapeFrom(jsonStr, 1, FALSE, FALSE)

\* cleaned := stripMarkdownCodeFences(findings); cleaned = fixJSONStringEscaping(cleaned)
Normalized(response) == fixJSONStringEscaping(stripMarkdownCodeFences(response))

(***************************************************************************)
(* The static pre-scan of triad mode.  A source line is a sequence of      *)
(* words; what strings.Contains finds in a line is what it finds in one of *)
(* its words.                                                              *)
(***************************************************************************)
\* the substrings the pre-scan looks for that a word holds as it is written
Needles(word) ==
    CASE word = "exec.Command(" -> {"exec.Command"}
      [] word = "tls.Config{" -> {"tls.Config"}
      [] word = "InsecureSkipVerify: true" -> {"InsecureSkipVerify", "true"}
      [] word = "InsecureSkipVerify: false" -> {"InsecureSkipVerify"}
      [] word = "+" -> {"+"}
      [] word = "fmt.Sprintf(" -> {"fmt.Sprintf"}
      [] word = "http.ListenAndServe(" -> {"http.ListenAndServe"}
      [] OTHER -> {}

\* the SQL keywords found in strings.ToUpper(word)
UpperNeedles(word) ==
    CASE word = "select" -> {"SELECT"}
      [] word = "DELETE" -> {"DELETE"}
      [] OTHER -> {}

\* the user hints found in strings.ToLower(word)
LowerNeedles(word) ==
    CASE word = "userInput" -> {"user", "input"}
      [] word = "Request" -> {"req", "request"}
      [] OTHER -> {}

\* strings.Contains(line, needle)
Contains(line, needle) == \E i \in 1..Len(line) : needle \in Needles(line[i])

\* looksLikeSQLConcat
looksLikeSQLConcat(line) ==
    IF ~(\E i \in 1..Len(line) :
           UpperNeedles(line[i]) \cap {"SELECT", "INSERT", "UPDATE", "DELETE"} # {})
    THEN FALSE
    ELSE Contains(line, "+") \/ Contains(line, "fmt.Sprintf")

userHints == {"r.", "req", "request", "user", "input", "param", "query", "form"}

\* looksLikeFmtSprintfUserInput
looksLikeFmtSprintfUserInput(line) ==
    IF ~Contains(line, "fmt.Sprintf") THEN FALSE
    ELSE \E hint \in userHints : \E i \in 1..Len(line) : hint \in LowerNeedles(line[i])

StaticFinding(filePath, lineNum, pattern, severity) ==
    [file |-> filePath, line |-> lineNum, pattern |-> pattern, severity |-> severity]

MatchesExec(line) == Contains(line, "exec.Command")

MatchesTLS(line) ==
    Contains(line, "tls.Config") /\ Contains(line, "InsecureSkipVerify")
    /\ Contains(line, "true")

MatchesListen(line) == Contains(line, "http.ListenAndServe")

\* a pre-scan whose five tests form one if / else-if chain
LineFindingsFirstMatch(filePath, lineNum, line) ==
    LET trimmed == TrimSpace(line) IN
    IF MatchesExec(trimmed)
    THEN <<StaticFinding(filePath, lineNum, "exec.Command", "High")>>
    ELSE IF MatchesTLS(trimmed)
    THEN <<StaticFinding(filePath, lineNum, "tls.Config{InsecureSkipVerify: true}", "High")>>
    ELSE IF looksLikeSQLConcat(trimmed)
    THEN <<StaticFinding(filePath, lineNum, "SQL string concatenation", "High")>>
    ELSE IF MatchesListen(trimmed)
    THEN <<StaticFinding(filePath, lineNum, "http.ListenAndServe", "Medium")>>
    ELSE IF looksLikeFmtSprintfUserInput(trimmed)
    THEN <<StaticFinding(filePath, lineNum, "fmt.Sprintf with user input", "Medium")>>
    ELSE <<>>

\* the body of the lines loop: five tests, one after the other
LineFindings(filePath, lineNum, line) ==
    LET trimmed == TrimSpace(line) IN
    (IF MatchesExec(trimmed)
     THEN <<StaticFinding(filePath, lineNum, "exec.Command", "High")>> ELSE <<>>)
    \o (IF MatchesTLS(trimmed)
        THEN <<StaticFinding(filePath, lineNum, "tls.Config{InsecureSkipVerify: true}", "High")>>
        ELSE <<>>)
    \o (IF looksLikeSQLConcat(trimmed)
        THEN <<StaticFinding(filePath, lineNum, "SQL string concatenation", "High")>>
        ELSE <<>>)
    \o (IF MatchesListen(trimmed)
        THEN <<StaticFinding(filePath, lineNum, "http.ListenAndServe", "Medium")>>
        ELSE <<>>)
    \o (IF looksLikeFmtSprintfUserInput(trimmed)
        THEN <<StaticFinding(filePath, lineNum, "fmt.Sprintf with user input", "Medium")>>
        ELSE <<>>)

\* for i, line := range lines, from index i on
RECURSIVE FileFindings(_, _, _)
FileFindings(filePath, sourceLines, i) ==
    IF i > Len(sourceLines) THEN <<>>
    ELSE LineFindings(filePath, i, sourceLines[i])
         \o FileFindings(filePath, sourceLines, i + 1)

\* runTriadStaticAnalysis, the map being ranged over in the order given
RECURSIVE runTriadStaticAnalysis(_, _)
runTriadStaticAnalysis(corpus, order) ==
    IF order = <<>> THEN <<>>
    ELSE FileFindings(Head(order), corpus[Head(order)], 1)
         \o runTriadStaticAnalysis(corpus, Tail(order))

\* the source lines the pre-scan is tried on
SampleLines ==
    {<<>>, <<"x">>, <<"\t", "exec.Command(">>, <<"tls.Config{">>,
     <<"tls.Config{", "InsecureSkipVerify: true">>,
     <<"tls.Config{", "InsecureSkipVerify: false">>,
     <<"select">>, <<"select", "+">>, <<"DELETE", "fmt.Sprintf(">>,
     <<"http.ListenAndServe(">>, <<"fmt.Sprintf(">>, <<"fmt.Sprintf(", "userInput">>,
     <<"fmt.Sprintf(", "Request">>, <<"exec.Command(", "http.ListenAndServe(">>,
     <<"exec.Command(", "tls.Config{", "InsecureSkipVerify: true", "select",
       "fmt.Sprintf(", "userInput", "http.ListenAndServe(">>}

SourceFiles == UNION {[1..n -> SampleLines] : n \in 1..MaxSourceLines}

\* codeByFile: one file of some lines, or two files of one line each
Corpora ==
    {[f \in {"a.go"} |-> src] : src \in SourceFiles}
    \cup [{"a.go", "b.go"} -> [1..1 -> SampleLines]]

\* the orders in which a range over the map may visit its keys
KeyOrders(corpus) ==
    {order \in UNION {[1..n -> DOMAIN corpus] : n \in 1..2} :
       /\ Len(order) = Cardinality(DOMAIN corpus)
       /\ \A f \in DOMAIN corpus : \E i \in 1..Len(order) : order[i] = f}

(***************************************************************************)
(* The findings of a security scan.  The JSON object with an empty         *)
(* findings list counts as one character; no other text over these         *)
(* characters is a JSON object.                                            *)
(***************************************************************************)
NoFindingsJSON == <<"{findings:[]}">>

ScanResponses ==
    UNION {[1..n -> {"FENCE", "json", "\n", "x", "{findings:[]}"}] : n \in 0..MaxChars}

\* what scanFileWithProgress makes of the response of the scan call: the
\* fences stripped, the escapes repaired, the JSON decoded into the result
ParseFindings(path, response) ==
    IF Normalized(response) = NoFindingsJSON
    THEN [err |-> FALSE, result |-> SecurityResult(path, <<>>)]
    ELSE [err |-> TRUE, result |-> EmptyResult(path)]

(***************************************************************************)
(* The custom prompt.  A prompt is a sequence of characters; the five      *)
(* characters of a directive prefix and the letters of a word count as one *)
(* character each, in upper or in lower case.                              *)
(***************************************************************************)
CustomPrompts ==
    UNION {[1..n -> {"MODE:", "mode:", "edit", "PLAN", "w", " ", "\n"}] : n \in 0..MaxChars}

\* strings.ToUpper and strings.ToLower on the characters of a prompt
UpperChar(c) ==
    CASE c = "mode:" -> "MODE:" [] c = "edit" -> "EDIT" [] c = "w" -> "W"
      [] OTHER -> c

LowerChar(c) ==
    CASE c = "MODE:" -> "mode:" [] c = "PLAN" -> "plan" [] OTHER -> c

\* strings.SplitN(t, "\n", 2): cut at the first line break, if there is one
SplitN2(t) ==
    LET breaks == {i \in 1..Len(t) : t[i] = "\n"} IN
    IF breaks = {} THEN <<t>>
    ELSE <<SubSeq(t, 1, Min(breaks) - 1), SubSeq(t, Min(breaks) + 1, Len(t))>>

\* a parse that takes a known mode only when it is spelled in lower case
ModeOfDirectiveCaseSensitive(head) ==
    LET mode == TrimSpace(Tail(head)) IN
    IF mode \in {<<"ask">>, <<"edit">>, <<"plan">>} THEN mode[1] ELSE "ask"

\* mode := strings.ToLower(strings.TrimSpace(head[len("MODE:"):])), and "ask"
\* unless it is ask, edit or plan
ModeOfDirective(head) ==
    LET rest == TrimSpace(Tail(head))
        mode == [i \in 1..Len(rest) |-> LowerChar(rest[i])]
    IN IF mode \in {<<"ask">>, <<"edit">>, <<"plan">>} THEN mode[1] ELSE "ask"

parseCustomPrompt(raw) ==
    LET trimmed == TrimSpace(raw)
        lines0 == SplitN2(trimmed)
        head == TrimSpace(lines0[1])
    IN IF trimmed = <<>> THEN [mode |-> "ask", userPrompt |-> <<>>]
       ELSE IF head # <<>> /\ UpperChar(Head(head)) = "MODE:"
       THEN [mode |-> ModeOfDirective(head),
             userPrompt |-> IF Len(lines0) > 1 THEN TrimSpace(lines0[2]) ELSE <<>>]
       ELSE [mode |-> "ask", userPrompt |-> trimmed]

\* RenderCustomPrompt: the template a mode selects
RenderCustomPrompt(mode) ==
    IF mode \in {"ask", "edit", "plan"} THEN <<"custom/", mode, ".txt">>
    ELSE <<"custom/", "ask", ".txt">>

(***************************************************************************)
(* The text functions applied on their own: a function is called on the    *)
(* subject, or on the result of the call before.                           *)
(***************************************************************************)
\* the value the next call is made on
Current == IF applied = <<>> THEN subject.value ELSE applied[Len(applied)].result

Call(op, result) ==
    /\ Len(applied) < MaxOps
    /\ applied' = Append(applied, [op |-> op, arg |-> Current, result |-> result])
    /\ UNCHANGED <<subject, scanVars, reviewVars>>

StripFences ==
    /\ subject.kind = "response"
    /\ Call("strip", stripMarkdownCodeFences(Current))

RepairEscapes ==
    /\ subject.kind = "response"
    /\ Call("repair", fixJSONStringEscaping(Current))

Normalize ==
    /\ subject.kind = "response"
    /\ Call("normalize", Normalized(Current))

\* staticFindings := runTriadStaticAnalysis(codeByFile)
Prescan ==
    /\ subject.kind = "corpus" /\ applied = <<>>
    /\ \E order \in KeyOrders(subject.value) :
         Call("prescan", runTriadStaticAnalysis(subject.value, order))

\* mode, userPrompt := parseCustomPrompt(s.customPrompt), and the template
\* RenderCustomPrompt reads for the mode
ParsePrompt ==
    /\ subject.kind = "prompt" /\ applied = <<>>
    /\ Call("parse", [parsed |-> parseCustomPrompt(subject.value),
                      template |-> RenderCustomPrompt(parseCustomPrompt(subject.value).mode)])

\* the tail of scanFileWithProgress on one response of the scan call
DecodeFindings ==
    /\ subject.kind = "findings" /\ applied = <<>>
    /\ Call("decode", ParseFindings("a.go", subject.value))

\* no text function is applied on its own
PureUnused ==
    /\ subject = [kind |-> "none", value |-> <<>>]
    /\ applied = <<>>

Init == InitScan /\ tracing = "none" /\ ReviewUnused /\ PureUnused

Next == NextScan

Spec == Init /\ [][Next]_vars

InitSession == ScanUnused /\ InitReview /\ PureUnused

\* a ScanFiles call whose model calls are kept file by file
InitLogged == InitScan /\ tracing = "calls" /\ ReviewUnused /\ PureUnused

SpecLogged == InitLogged /\ [][Next]_vars

\* a triad scan on its own, in which every model call returns and the scan
\* goes on whenever it can
InitTriad == Init /\ TriadMode

SpecTriad == InitTriad /\ [][NextTriad]_vars /\ WF_vars(NextTriad)

\* a scan by the worker pool on its own, in which every goroutine that can
\* take a step is scheduled in the end: the ScanFiles goroutine, each worker
\* (whose file reads and model calls all return) and the render goroutine
InitPool == Init /\ PoolMode

SpecPool ==
    /\ InitPool
    /\ [][NextPool]_vars
    /\ WF_vars(MainStep)
    /\ WF_vars(RenderExit)
    /\ \A w \in Workers : WF_vars(WorkerStep(w))

\* a scan by the worker pool whose progress messages are kept file by file
InitMessages == InitScan /\ PoolMode /\ tracing = "messages" /\ ReviewUnused /\ PureUnused

SpecMessages == InitMessages /\ [][NextPool]_vars

\* more files than the pool has workers, each of them scanned in full
BusyList == [i \in 1..(NumWorkers + 1) |-> [readable |-> TRUE, size |-> MaxFileSize]]

\* ScanFiles entered with more files than workers (security mode), or with a
\* short list in the two other modes
InitBusy ==
    /\ \/ scanType = "security" /\ files = BusyList
       \/ scanType = "custom" /\ files \in {fl \in FileLists : Len(fl) <= 1}
       \/ scanType = "triad" /\ files \in FileLists
    /\ tracing = "none"
    /\ mainPc = IF scanType = "triad" THEN "triad" ELSE "queue"
    /\ jobs = <<>>
    /\ jobsClosed = FALSE
    /\ nextJob = 1
    /\ wpc = [w \in Workers |-> IF scanType = "triad" THEN "unstarted" ELSE "range"]
    /\ wfile = [w \in Workers |-> 0]
    /\ wcur = [w \in Workers |-> 0]
    /\ wres = [w \in Workers |-> NoResult]
    /\ completed = 0
    /\ results = <<>>
    /\ errLog = {}
    /\ taken = [i \in 1..Len(files) |-> 0]
    /\ fileCalls = [i \in 1..Len(files) |-> <<>>]
    /\ msgs = [i \in 1..Len(files) |-> <<>>]
    /\ spinner = NewSpinner
    /\ retResults = <<>>
    /\ retErr = "unset"
    /\ InitTriadVars
    /\ ReviewUnused
    /\ PureUnused

SpecBusy == InitBusy /\ [][Next]_vars

InitPure ==
    /\ ScanUnused /\ ReviewUnused
    /\ subject \in [kind : {"response"}, value : Responses]
                   \cup [kind : {"corpus"}, value : Corpora]
                   \cup [kind : {"prompt"}, value : CustomPrompts]
                   \cup [kind : {"findings"}, value : ScanResponses]
    /\ applied = <<>>

NextPure ==
    \/ StripFences
    \/ RepairEscapes
    \/ Normalize
    \/ Prescan
    \/ ParsePrompt
    \/ DecodeFindings

SpecPure == InitPure /\ [][NextPure]_vars

SpecReview == InitSession /\ [][NextReview]_vars

(***************************************************************************)
(* Properties of ScanFiles.                                                *)
(***************************************************************************)
PoolReturned == PoolMode /\ mainPc = "done"

TriadReturned == TriadMode /\ mainPc = "done"

\* the positions in the returned list of the results for file i
ResultsFor(i) == {k \in 1..Len(retResults) : retResults[k].filePath = i}

FileIndices == 1..Len(files)

\* file i was read and then left out for its size
SkippedFile(i) == files[i].readable /\ SkippedSize(files[i].size)

\* file i went through its pipeline without an error
Succeeded(i) == taken[i] >= 1 /\ i \notin errLog

\* C1 (as claimed): in security and custom mode the list ScanFiles returns holds
\* no result for a file that is empty or larger than 100,000 bytes.
C1_Original ==
    PoolReturned => \A i \in FileIndices : SkippedFile(i) => ResultsFor(i) = {}

\* C8 (as claimed): in every mode a returned result has hasIssues exactly when
\* its issues list (in triad mode the final report's vulnerabilities) is not
\* empty.
C8_Original ==
    mainPc = "done" =>
      \A k \in 1..Len(retResults) :
        LET r == retResults[k] IN
        IF TriadMode
        THEN r.hasIssues <=>
               (r.rawFindings # <<>> /\ r.rawFindings[1].vulnerabilities # <<>>)
        ELSE r.hasIssues <=> r.issues # <<>>

\* C8 (amended): in security and triad mode a returned result has hasIssues
\* exactly when its issues list (in triad mode the vulnerabilities of the
\* report it carries) is not empty; in custom mode the issues list is always
\* empty and hasIssues tells whether the response holds a non-blank character.
C8_HasIssuesIffIssues ==
    mainPc = "done" =>
      \A k \in 1..Len(retResults) :
        LET r == retResults[k] IN
        CASE scanType = "triad" ->
               r.hasIssues <=>
                 (r.rawFindings # <<>> /\ r.rawFindings[1].vulnerabilities # <<>>)
          [] scanType = "security" -> r.hasIssues <=> r.issues # <<>>
          [] OTHER ->
               /\ r.issues = <<>>
               /\ r.hasIssues <=> \E c \in 1..Len(r.rawFindings) : ~IsSpace(r.rawFindings[c])

\* a security scan has returned a result with issues, and one without
C8_Witness ==
    /\ scanType = "security" /\ mainPc = "done"
    /\ \E k \in 1..Len(retResults) : retResults[k].hasIssues /\ retResults[k].issues # <<>>
    /\ \E k \in 1..Len(retResults) :
         /\ ~retResults[k].hasIssues
         /\ files[retResults[k].filePath].size = MaxFileSize

\* C9: in security and custom mode a failure on one file does not end the
\* batch: when ScanFiles returns, every file has been taken by a worker, and
\* every file that went through without an error is in the returned list.
C9_FailureDoesNotAbort ==
    PoolReturned =>
      \A i \in FileIndices :
        /\ taken[i] >= 1
        /\ i \notin errLog => ResultsFor(i) # {}

\* one file failed, and a file queued behind it was scanned and returned
C9_Witness ==
    /\ PoolReturned
    /\ \E i, j \in FileIndices :
         /\ i < j /\ i \in errLog /\ j \notin errLog
         /\ files[j].size = MaxFileSize
         /\ ResultsFor(j) # {}

\* C10: when ScanFiles returns in security or custom mode, every index was
\* taken from the queue exactly once, every worker has left its loop, a file
\* that was scanned without an error (whether or not anything was found) has
\* exactly one result, a file that failed has none, and no file has two.
C10_OneResultPerFile ==
    PoolReturned =>
      /\ jobs = <<>>
      /\ \A w \in Workers : wpc[w] = "exited"
      /\ \A i \in FileIndices :
           /\ taken[i] = 1
           /\ Cardinality(ResultsFor(i)) <= 1
           /\ (Succeeded(i) /\ ~SkippedFile(i)) => Cardinality(ResultsFor(i)) = 1
           /\ i \in errLog => ResultsFor(i) = {}

\* two scanned files, one of them without findings, and both results returned
C10_Witness ==
    /\ PoolReturned /\ Len(files) >= 2
    /\ \A i \in FileIndices : files[i].readable /\ files[i].size = MaxFileSize
    /\ \A i \in FileIndices : Cardinality(ResultsFor(i)) = 1
    /\ \E k \in 1..Len(retResults) : ~retResults[k].hasIssues
    /\ scanType = "security"

(***************************************************************************)
(* Properties of the triad debate.                                         *)
(***************************************************************************)
\* the debate ran and ScanFiles returned its result
TriadCompleted == TriadReturned /\ retErr = "nil" /\ codeByFile # {}

\* "HIGH" in any mix of cases
SaysHigh(key) ==
    /\ key # <<>>
    /\ key[1] \in {<<a, b, c, d>> : a \in {"H", "h"}, b \in {"I", "i"},
                                   c \in {"G", "g"}, d \in {"H", "h"}}

\* the first round whose auditor said HIGH, or the last round there is
FirstHighRound(log) ==
    IF \E r \in 1..Len(log) : SaysHigh(log[r])
    THEN Min({r \in 1..Len(log) : SaysHigh(log[r])})
    ELSE MaxRounds

\* C6: when the debate runs to its end without an error, the number of rounds
\* executed is the index of the first round whose auditor confidence is HIGH
\* in any case, or 3 without one; each round makes three model calls, so a
\* first HIGH in round 2 means 6 calls and no round 3.
C6_RoundsUntilHigh ==
    TriadCompleted =>
      /\ Len(confLog) = round
      /\ round = FirstHighRound(confLog)
      /\ calls = 3 * round

\* round 2 was the first to say HIGH (in lower case): two rounds, six calls
C6_Witness ==
    /\ TriadCompleted
    /\ round = 2 /\ calls = 6
    /\ confLog[1] = << <<"L", "O", "W">> >>
    /\ confLog[2] = << <<"h", "i", "g", "h">> >>

\* what decoding one auditor response alone gives
DecodedAlone(obj) == Unmarshal(ZeroReport, obj)

\* C7 (as claimed): the report a triad scan returns is the one decoded from the
\* last round's auditor response, no field of it coming from an earlier round,
\* and hasIssues is derived from that round's vulnerabilities.
C7_Original ==
    TriadCompleted =>
      /\ retResults[1].rawFindings = MarshalIndent(DecodedAlone(lastResp))
      /\ retResults[1].hasIssues <=> DecodedAlone(lastResp).vulnerabilities # <<>>

(***************************************************************************)
(* Properties of a review session.                                         *)
(***************************************************************************)
\* the finding of the most recent applyFix call, as the model reported it
AppliedIssue == findings[lastApply.idx + 1]

\* C2 (as claimed): with the findings in strictly descending lineStart order, a
\* fix that is applied leaves in its place the first line of every finding
\* that is not applied yet, whatever keys were pressed before.
C2_Original ==
    [][(appliedFixes' # appliedFixes /\ StrictlyDescending(findings)) =>
         \A j \in 1..Len(findings) :
           ((j - 1) \notin appliedFixes' /\ findings[j].lineStart <= Len(disk)) =>
             /\ findings[j].lineStart <= Len(disk')
             /\ disk'[findings[j].lineStart] = disk[findings[j].lineStart]]_vars

\* C3 (as claimed): a successful apply of an m-line fix to a finding whose
\* reported range holds k < m lines of an n-line file leaves n - k + m lines,
\* the lines after the reported range kept and moved down by m - k.
C3_Original ==
    LET n == Len(lastApply.before)
        k == AppliedIssue.lineEnd - AppliedIssue.lineStart + 1
        m == lastApply.fixLineCount
    IN (/\ lastApply.ok
        /\ 1 <= AppliedIssue.lineStart /\ AppliedIssue.lineStart <= AppliedIssue.lineEnd
        /\ AppliedIssue.lineEnd <= n /\ k < m)
       => /\ Len(disk) = n - k + m
          /\ \A j \in (AppliedIssue.lineEnd + 1)..n : disk[j + m - k] = lastApply.before[j]

\* C4: the file is written only after the backup was written, the backup is
\* written at most once in a session, and it holds the content the file had
\* when the session started, whatever applies follow.
C4_BackupBeforeMutation ==
    /\ (fileWritten \/ disk # orig) => backupCreated
    /\ backupCreated => backup = <<orig>>
    /\ backupWrites <= 1

\* two fixes are applied, and the backup still holds the original file
C4_Witness ==
    /\ Cardinality(appliedFixes) >= 2
    /\ disk # orig
    /\ backup = <<orig>> /\ backupWrites = 1

\* C5: whatever line numbers the model reported, the range applyFix splices
\* satisfies 1 <= lineStart <= lineEnd <= lineCount.
C5_ClampedRange ==
    lastApply.clamped =>
      /\ lastApply.lineCount = Len(lastApply.before)
      /\ 1 <= lastApply.lineStart
      /\ lastApply.lineStart <= lastApply.lineEnd
      /\ lastApply.lineEnd <= lastApply.lineCount

\* a fix was spliced for a finding reported past the end of the file with a
\* negative lineEnd
C5_Witness ==
    /\ lastApply.ok
    /\ AppliedIssue.lineStart > Len(lastApply.before)
    /\ AppliedIssue.lineEnd < 0

(***************************************************************************)
(* Concurrency of ScanFiles.                                               *)
(***************************************************************************)
\* the workers that hold a file: between the receive from jobs and the append
\* (or the report of the failure)
BusyWorkers == {w \in DOMAIN wpc : wpc[w] \notin {"range", "exited", "unstarted"}}

\* the workers blocked in a model call
CallingWorkers == {w \in DOMAIN wpc : wpc[w] \in {"context", "scan", "custom"}}

TriadRoles == <<"attacker", "defender", "auditor">>

\* the triad scan is blocked in a model call
TriadCalling == \E r \in 1..Len(TriadRoles) : tpc = TriadRoles[r]

\* the calls the triad scan has issued when it is blocked in the call of tpc
CallsIssuedAt(rnd, role) ==
    3 * (rnd - 1) + (CHOOSE r \in 1..Len(TriadRoles) : TriadRoles[r] = role)

\* C11: in security and custom mode at most 3 files are being processed, and
\* so at most 3 model calls are in flight, whatever the number of files; in
\* triad mode no worker runs and the one call in flight, if any, is the last
\* one issued, every call before it having returned.
C11_BoundedConcurrency ==
    /\ PoolMode =>
         /\ Cardinality(BusyWorkers) <= NumWorkers
         /\ Cardinality(CallingWorkers) <= NumWorkers
         /\ \A v, w \in BusyWorkers : v # w => wfile[v] # wfile[w]
         /\ ~TriadCalling /\ calls = 0
    /\ TriadMode =>
         /\ BusyWorkers = {}
         /\ TriadCalling => calls = CallsIssuedAt(round, tpc)

\* three model calls are in flight while a fourth file waits in the queue
C11_Witness ==
    /\ PoolMode
    /\ Cardinality(CallingWorkers) = NumWorkers
    /\ jobs # <<>>

(***************************************************************************)
(* Errors.                                                                 *)
(***************************************************************************)
\* C12 (as claimed): for a non-empty file list in security or custom mode,
\* ScanFiles returns a nil error when at least one file went through without
\* an error, and a non-nil error when every file failed.
C12_Original ==
    (PoolReturned /\ Len(files) > 0) =>
      (retErr = "nil" <=> \E i \in FileIndices : i \notin errLog)

\* some call of the triad scan failed, or its auditor response did not decode
CallWentWrong == \E c \in 1..Len(callLog) : callLog[c].outcome # "ok"

UnreadableInput == \E i \in FileIndices : ~files[i].readable

\* C13: in triad mode an unreadable input file, a failed attacker, defender or
\* auditor call, or an auditor response that does not decode, in any round,
\* ends the scan: ScanFiles returns an error and no ScanResult, and the call
\* that went wrong is the last one made, even when an earlier round had
\* decoded a report; without any of these it returns a nil error.
C13_TriadErrorAborts ==
    /\ (TriadMode /\ CallWentWrong) =>
         /\ TriadReturned
         /\ callLog[Len(callLog)].outcome # "ok"
         /\ \A c \in 1..(Len(callLog) - 1) : callLog[c].outcome = "ok"
         /\ calls = Len(callLog)
    /\ TriadReturned =>
         /\ (CallWentWrong \/ UnreadableInput) <=> retErr # "nil"
         /\ retErr # "nil" => retResults = <<>>
         /\ UnreadableInput => calls = 0

\* round 1 decoded a report, a call of round 2 went wrong, and ScanFiles
\* returned an error without a result
C13_Witness ==
    /\ TriadReturned /\ CallWentWrong
    /\ round = 2 /\ Len(confLog) = 1
    /\ lastReport.vulnerabilities # <<>>
    /\ retErr # "nil" /\ retResults = <<>>

\* C14: an apply whose backup write or file write fails is abandoned alone:
\* the finding is not marked applied, the index stays, and the session goes on
\* browsing without returning; a failed backup write leaves the file as it was.
C14_FailedApplyAbandoned ==
    [][/\ \A outcome \in {"backupUnopened", "backupTruncated",
                          "writeUnopened", "writeTruncated"} :
            \/ /\ appliedFixes' = appliedFixes
               /\ currentIdx' = currentIdx
               /\ rpc' = "browse"
               /\ rret' = "running"
            \/ ~ApplyAttempt(outcome)
       /\ \A outcome \in {"backupUnopened", "backupTruncated"} :
            \/ /\ disk' = disk
               /\ ~backupCreated'
               /\ ~fileWritten'
            \/ ~ApplyAttempt(outcome)]_vars

\* the write of the fixed file has just failed, after the backup was made:
\* the finding on screen is the same, unapplied, and the session is browsing
C14_Witness ==
    /\ lastApply.clamped /\ ~lastApply.ok
    /\ backupCreated
    /\ disk = EmptyText /\ orig # EmptyText
    /\ rpc = "browse" /\ rret = "running"
    /\ currentIdx = lastApply.idx /\ currentIdx \notin appliedFixes

(***************************************************************************)
(* Properties of the response normalizer.                                  *)
(***************************************************************************)
\* C15 (as claimed): normalizing (fence-strip, then escape-repair) what was
\* normalized already gives the same string.
C15_Original ==
    \A k \in 1..(Len(applied) - 1) :
      (applied[k].op = "normalize" /\ applied[k + 1].op = "normalize") =>
        applied[k + 1].result = applied[k].result

\* the repair the claim describes: every newline and tab met inside a string
\* becomes its two-character escape, every other character is copied
RECURSIVE ClaimedRepairFrom(_, _, _, _)
ClaimedRepairFrom(str, i, inString, escaped) ==
    IF i > Len(str) THEN <<>>
    ELSE LET ch == str[i]
             nowEscaped == ~escaped /\ ch = "\\"
             nowInString == IF ~escaped /\ ch = "\"" THEN ~inString ELSE inString
         IN (IF inString /\ ch = "\n" THEN <<"\\", "n">>
             ELSE IF inString /\ ch = "\t" THEN <<"\\", "t">>
             ELSE <<ch>>)
            \o ClaimedRepairFrom(str, i + 1, nowInString, nowEscaped)

\* C18 (as claimed): escape-repair rewrites every literal newline or tab that
\* lies inside a double-quoted string to backslash-n or backslash-t and copies
\* every other character, for every input string.
C18_Original ==
    \A k \in 1..Len(applied) :
      applied[k].op = "repair" =>
        applied[k].result = ClaimedRepairFrom(applied[k].arg, 1, FALSE, FALSE)

(***************************************************************************)
(* More properties of ScanFiles.                                           *)
(***************************************************************************)
\* C16 (as claimed): every ScanResult that ScanFiles returns, in every mode,
\* has a non-empty rawFindings text, even when it carries no findings.
C16_Original ==
    mainPc = "done" =>
      \A k \in 1..Len(retResults) : retResults[k].rawFindings # <<>>

(***************************************************************************)
(* Properties of the static pre-scan.                                      *)
(***************************************************************************)
\* the five rules: pattern name and severity
StaticRules ==
    {[pattern |-> "exec.Command", severity |-> "High"],
     [pattern |-> "tls.Config{InsecureSkipVerify: true}", severity |-> "High"],
     [pattern |-> "SQL string concatenation", severity |-> "High"],
     [pattern |-> "http.ListenAndServe", severity |-> "Medium"],
     [pattern |-> "fmt.Sprintf with user input", severity |-> "Medium"]}

\* the rule named pattern matches the line
RuleMatches(pattern, line) ==
    CASE pattern = "exec.Command" -> MatchesExec(line)
      [] pattern = "tls.Config{InsecureSkipVerify: true}" -> MatchesTLS(line)
      [] pattern = "SQL string concatenation" -> looksLikeSQLConcat(line)
      [] pattern = "http.ListenAndServe" -> MatchesListen(line)
      [] pattern = "fmt.Sprintf with user input" -> looksLikeFmtSprintfUserInput(line)

\* C17: for every line of every file the pre-scan emits exactly one finding
\* for each of the five rules that matches the line, and none for a rule that
\* does not, each rule on its own; a finding carries the file, the 1-based line
\* number, the rule's pattern name and its severity, and there is no other
\* finding.
C17_OneFindingPerMatchingRule ==
    \A k \in 1..Len(applied) :
      applied[k].op = "prescan" =>
        LET corpus == applied[k].arg
            found == applied[k].result
        IN /\ \A f \in DOMAIN corpus, rule \in StaticRules :
                \A n \in 1..Len(corpus[f]) :
                  Cardinality({i \in 1..Len(found) :
                                 /\ found[i].file = f /\ found[i].line = n
                                 /\ found[i].pattern = rule.pattern})
                    = IF RuleMatches(rule.pattern, corpus[f][n]) THEN 1 ELSE 0
           /\ \A i \in 1..Len(found) :
                /\ found[i].file \in DOMAIN corpus
                /\ found[i].line \in 1..Len(corpus[found[i].file])
                /\ [pattern |-> found[i].pattern, severity |-> found[i].severity]
                     \in StaticRules

\* a two-line file was scanned whose line 1 matches no rule and whose line 2
\* matches two: two findings, both on line 2
C17_Witness ==
    /\ subject.kind = "corpus" /\ applied # <<>>
    /\ DOMAIN subject.value = {"a.go"}
    /\ Len(subject.value["a.go"]) = 2
    /\ subject.value["a.go"][1] = <<"x">>
    /\ LET found == applied[1].result IN
       /\ Len(found) = 2
       /\ found[1] = StaticFinding("a.go", 2, "exec.Command", "High")
       /\ found[2] = StaticFinding("a.go", 2, "http.ListenAndServe", "Medium")

\* ---------------------------------------------------------------------------
\* The running summary of the triad loop
\* ---------------------------------------------------------------------------

\* the summary a decoded auditor response gives by itself: its own summary,
\* trimmed, when that is not empty, and else the start of its text
OwnSummary(obj) ==
    IF obj.summary # <<>> /\ TrimSpace(obj.summary[1]) # <<>>
    THEN TrimSpace(obj.summary[1])
    ELSE truncateText(RawText(obj), 1200)

\* C19: in round 2 and later, the running summary, and the summary in the
\* prompt of the call under way, is the one the previous round's auditor
\* response gives by itself, never the summary of an earlier round
C19_Original ==
    (TriadMode /\ TriadCalling /\ round >= 2) =>
        /\ summary = OwnSummary(lastResp)
        /\ prompts[Len(prompts)].summary = OwnSummary(lastResp)

\* ---------------------------------------------------------------------------
\* The order of the triad calls
\* ---------------------------------------------------------------------------

\* the role and the round of the k-th call of a scan that calls in order
RoleOfCall(k) == TriadRoles[((k - 1) % 3) + 1]
RoundOfCall(k) == ((k - 1) \div 3) + 1

\* the calls are issued one at a time, in the order attacker, defender,
\* auditor, round after round, each after the one before it has returned well,
\* each prompt embedding the responses of its round, and never more than
\* three per round
CallsInOrder ==
    TriadMode =>
        /\ Len(prompts) = calls
        /\ calls <= 3 * MaxRounds
        /\ Len(callLog) = IF TriadCalling THEN calls - 1 ELSE calls
        /\ TriadCalling => /\ prompts[calls].role = tpc
                           /\ prompts[calls].round = round
        /\ \A k \in 1..Len(prompts) :
             /\ prompts[k].role = RoleOfCall(k)
             /\ prompts[k].round = RoundOfCall(k)
             /\ k > 1 => callLog[k - 1].outcome = "ok"
             /\ prompts[k].role = "attacker" =>
                  /\ prompts[k].attacker = <<>>
                  /\ prompts[k].defender = <<>>
                  /\ k > 1 => Len(confLog) >= RoundOfCall(k) - 1
             /\ prompts[k].role = "defender" =>
                  /\ prompts[k].attacker = callLog[k - 1].response
                  /\ prompts[k].attacker \in AttackerResponses(RoundOfCall(k))
                  /\ prompts[k].defender = <<>>
             /\ prompts[k].role = "auditor" =>
                  /\ prompts[k].attacker = callLog[k - 2].response
                  /\ prompts[k].attacker \in AttackerResponses(RoundOfCall(k))
                  /\ prompts[k].defender = callLog[k - 1].response
                  /\ prompts[k].defender \in DefenderResponses(RoundOfCall(k))

\* C20: the triad calls are made one after the other, attacker, defender
\* (its prompt holding the round's attacker response), auditor (its prompt
\* holding both), a round starting only when the auditor response of the
\* round before has been decoded; no scan makes more than 9 calls, and when
\* every call returns the scan always comes to its end
C20_SequentialCalls == []CallsInOrder /\ (TriadMode ~> TriadReturned)

\* three whole rounds have been run: nine calls, all returned, none HIGH
\* before the last
C20_Witness ==
    /\ TriadCompleted
    /\ calls = 3 * MaxRounds /\ Len(callLog) = 3 * MaxRounds
    /\ round = MaxRounds
    /\ prompts[3 * MaxRounds].role = "auditor"
    /\ prompts[3 * MaxRounds].attacker = <<"attacker", MaxRounds>>
    /\ prompts[3 * MaxRounds].defender = <<"defender", MaxRounds>>

\* ---------------------------------------------------------------------------
\* No retries
\* ---------------------------------------------------------------------------

\* the most calls one file takes: context and scan, or the custom call
CallsPerFile == IF scanType = "security" THEN 2 ELSE 1

\* the calls of one unit of work: none follows a call that went wrong, and
\* none is made a second time
NeverRetried(log) ==
    /\ \A c \in 1..(Len(log) - 1) : log[c].outcome = "ok"
    /\ \A a, b \in 1..Len(log) : a # b => log[a].call # log[b].call

\* C21: each file is handed out once and takes at most two calls in security
\* mode (the context call, then the scan call once the context call has
\* succeeded) and at most one in custom mode; a skipped or unreadable file
\* takes none; no call follows a failed or undecodable one, for a file as for
\* a triad run
C21_NoRetry ==
    /\ PoolMode =>
         \A i \in FileIndices :
            /\ taken[i] <= 1
            /\ Len(fileCalls[i]) <= CallsPerFile
            /\ NeverRetried(fileCalls[i])
            /\ ~Qualifies(files[i]) => fileCalls[i] = <<>>
            /\ fileCalls[i] # <<>> =>
                 fileCalls[i][1].call = IF scanType = "security" THEN "context"
                                        ELSE "custom"
            /\ Len(fileCalls[i]) = 2 =>
                 /\ fileCalls[i][1] = [call |-> "context", outcome |-> "ok"]
                 /\ fileCalls[i][2].call = "scan"
            /\ i \in errLog /\ fileCalls[i] # <<>> =>
                 fileCalls[i][Len(fileCalls[i])].outcome \in {"failed", "undecodable"}
    /\ TriadMode =>
         /\ \A c \in 1..(Len(callLog) - 1) : callLog[c].outcome = "ok"
         /\ CallWentWrong => Len(prompts) = Len(callLog)

\* a security batch has returned in which the context call of one file
\* succeeded and its scan response did not decode: two calls, and no more
C21_Witness ==
    /\ PoolReturned /\ scanType = "security"
    /\ \E i \in FileIndices :
         /\ i \in errLog
         /\ fileCalls[i] = <<[call |-> "context", outcome |-> "ok"],
                            [call |-> "scan", outcome |-> "undecodable"]>>

\* ---------------------------------------------------------------------------
\* Triad mode: which files enter the joint context
\* ---------------------------------------------------------------------------

\* file i is neither empty nor larger than 100,000 bytes
WithinSize(i) == files[i].readable /\ files[i].size > 0 /\ files[i].size <= 100000

AllReadable == \A i \in FileIndices : files[i].readable

\* the result of a triad scan in which no debate took place
NoDebateResult ==
    [filePath |-> "triad:multi", rawFindings |-> <<>>, hasIssues |-> FALSE,
     issues |-> <<>>]

\* C22 (as claimed): once the files have been read, the joint context holds
\* no empty or oversize file, model calls are made exactly when some file
\* qualifies, and when none does ScanFiles returns the one empty
\* "triad:multi" result with a nil error
C22_Original ==
    (TriadMode /\ tpc # "read") =>
        /\ \A i \in codeByFile : WithinSize(i)
        /\ calls > 0 <=> (\E i \in FileIndices : WithinSize(i))
        /\ ~(\E i \in FileIndices : WithinSize(i)) =>
             /\ TriadReturned /\ retErr = "nil"
             /\ retResults = <<NoDebateResult>>
             /\ calls = 0

\* C22 (amended): when every file can be read, the joint context holds
\* exactly the files that are neither empty nor oversize, model calls are made
\* exactly when there is such a file, and when there is none ScanFiles returns
\* the one empty "triad:multi" result with a nil error; when some file cannot
\* be read no call is made and ScanFiles returns the read error
C22_DebateIffQualifying ==
    (TriadMode /\ tpc # "read") =>
        /\ \A i \in codeByFile : WithinSize(i)
        /\ AllReadable =>
             /\ codeByFile = {i \in FileIndices : WithinSize(i)}
             /\ calls > 0 <=> (\E i \in FileIndices : WithinSize(i))
             /\ ~(\E i \in FileIndices : WithinSize(i)) =>
                  /\ TriadReturned /\ retErr = "nil"
                  /\ retResults = <<NoDebateResult>>
                  /\ calls = 0
        /\ ~AllReadable =>
             /\ calls = 0 /\ codeByFile = {}
             /\ TriadReturned /\ retErr = "failed to read file" /\ retResults = <<>>

\* the debate runs on the one qualifying file of two, the other being oversize
C22_Witness ==
    /\ TriadMode /\ tpc = "attacker"
    /\ Len(files) = 2 /\ AllReadable
    /\ files[1].size > 100000 /\ WithinSize(2)
    /\ codeByFile = {2} /\ calls = 1

\* ---------------------------------------------------------------------------
\* Custom mode: hasIssues
\* ---------------------------------------------------------------------------

\* the text holds a character that is not white space
HasVisibleChar(text) ==
    \E k \in 1..Len(text) : text[k] \notin {" ", "\t", "\n"}

FileOrMarksTouched ==
    \/ disk' # disk \/ fileWritten' # fileWritten
    \/ backup' # backup \/ backupWrites' # backupWrites
    \/ appliedFixes' # appliedFixes
    \/ lastApply' # lastApply

\* C24: a step touches the file, the backup or the applied set only while the
\* finding on screen has a fix and is not marked applied; it marks no other
\* finding than that one, and a fix that is written belongs to a finding that
\* was not marked before, so no fix is applied twice
C24_ApplyOnlyOnce ==
    [][ /\ FileOrMarksTouched =>
             /\ Browsing
             /\ issueOnScreen.fixAvailable
             /\ currentIdx \notin appliedFixes
             /\ appliedFixes \subseteq appliedFixes'
             /\ appliedFixes' \subseteq appliedFixes \cup {currentIdx}
        /\ (lastApply' # lastApply /\ lastApply'.ok) =>
             /\ lastApply'.idx = currentIdx
             /\ lastApply'.idx \notin appliedFixes
             /\ lastApply'.idx \in appliedFixes' ]_vars

\* the first of two findings has had its fix applied and is on screen again
C24_Witness ==
    /\ Browsing /\ Len(findings) = 2
    /\ currentIdx = 0 /\ appliedFixes = {0}
    /\ lastApply.ok /\ lastApply.idx = 0
    /\ disk # orig

\* ---------------------------------------------------------------------------
\* The review session: the keys that only navigate
\* ---------------------------------------------------------------------------

\* the file, the backup, the applied set and the caches stay as they are
NothingMutated ==
    UNCHANGED <<disk, backup, appliedFixes, backupCreated, content, lines,
                findings, fileWritten, backupWrites, lastApply>>

\* the session neither ends nor leaves Browsing
StaysBrowsing == UNCHANGED <<rpc, rret>>

\* C25 (as claimed): Ignore, Next, Previous and Show leave the file, the
\* backup and the applied set alone; Show comes back to Browsing on the same
\* finding; Ignore, Next and Previous change nothing but the current index
C25_Original ==
    [][ /\ (NothingMutated /\ UNCHANGED currentIdx)
           \/ ~(Show \/ ShowDone)
        /\ (NothingMutated /\ StaysBrowsing)
           \/ ~(Ignore \/ NextFinding \/ PreviousFinding) ]_vars

\* C25 (amended): Ignore, Next, Previous and Show leave the file, the backup,
\* the applied set and the caches alone; Show comes back to Browsing on the
\* same finding; Next and Previous change nothing but the current index, by
\* one at most; Ignore moves to the next finding, and on the last finding
\* it ends the session instead, returning nil
C25_NavigationOnly ==
    [][ /\ NothingMutated
           \/ ~(Show \/ ShowDone \/ Ignore \/ NextFinding \/ PreviousFinding)
        /\ (UNCHANGED <<currentIdx, rret>> /\ rpc' \in {"browse", "showing"})
           \/ ~Show
        /\ (UNCHANGED <<currentIdx, rret>> /\ rpc' = "browse")
           \/ ~ShowDone
        /\ (StaysBrowsing /\ currentIdx' \in {currentIdx, currentIdx + 1})
           \/ ~NextFinding
        /\ (StaysBrowsing /\ currentIdx' \in {currentIdx, currentIdx - 1})
           \/ ~PreviousFinding
        /\ (IF currentIdx < LastIdx
            THEN StaysBrowsing /\ currentIdx' = currentIdx + 1
            ELSE rpc' = "done" /\ rret' = "nil" /\ UNCHANGED currentIdx)
           \/ ~Ignore ]_vars

\* the diff of the second finding is on screen after the fix of the first
\* has been written
C25_Witness ==
    /\ rpc = "showing" /\ currentIdx = 1
    /\ appliedFixes = {0} /\ backup = <<orig>> /\ disk # orig

\* ---------------------------------------------------------------------------
\* The review session: how it ends
\* ---------------------------------------------------------------------------

\* the step ends the session
SessionEnds == rpc # "done" /\ rpc' = "done"

\* C26 (as claimed): the session ends on quit, or when the last finding is
\* resolved (its fix is applied, or it is ignored), and in no other way;
\* Next, Previous, Show and an invalid key never end it; quit writes nothing
\* and leaves the applied fixes in the file
C26_Original ==
    [][ /\ SessionEnds =>
             \/ Quit
             \/ currentIdx = LastIdx /\ (Ignore \/ currentIdx \in appliedFixes')
        /\ ~SessionEnds
           \/ ~(NextFinding \/ PreviousFinding \/ Show \/ ShowDone \/ InvalidChoice)
        /\ UNCHANGED <<disk, backup, appliedFixes>> \/ ~Quit ]_vars

\* ---------------------------------------------------------------------------
\* applyFix: what it writes
\* ---------------------------------------------------------------------------

\* the lines of the fix handed to the most recent applyFix call
AppliedFixLines ==
    TrimSuffixNewline(extractCodeFromResponse(AppliedIssue.suggestedFix))

\* C27: after a successful applyFix the file holds the lines it had before
\* lineStart, then as many lines as the fix has, each with the text of its
\* fix line, then the lines it had after lineEnd, so that its line count is
\* lineCount - (lineEnd - lineStart + 1) + the number of fix lines; after an
\* applyFix that failed for want of a fix or because the file could not be
\* read, the file is as it was
C27_SpliceFrame ==
    /\ lastApply.ok =>
         LET old == lastApply.before
             ls == lastApply.lineStart
             le == lastApply.lineEnd
             m == Len(AppliedFixLines)
         IN /\ Len(disk) = lastApply.lineCount - (le - ls + 1) + m
            /\ \A j \in 1..(ls - 1) : disk[j] = old[j]
            /\ \A j \in 1..m :
                 TrimSpace(disk[ls - 1 + j]) = TrimSpace(AppliedFixLines[j])
            /\ \A j \in (le + 1)..Len(old) : disk[j - (le - ls + 1) + m] = old[j]
    /\ (lastApply.called /\ ~lastApply.clamped) => disk = lastApply.before

\* a one-line fix has replaced lines 2 and 3 of a file of four lines
C27_Witness ==
    /\ lastApply.ok
    /\ lastApply.lineStart = 2 /\ lastApply.lineEnd = 3 /\ lastApply.lineCount = 4
    /\ Len(AppliedFixLines) = 1
    /\ Len(disk) = 3

\* ---------------------------------------------------------------------------
\* The review session: the cached file
\* ---------------------------------------------------------------------------

\* C28: while the session goes on after a successful apply, the cached
\* content and the cached line list are the file as it is on disk, so what
\* is clamped, widened and shown next is the file with the fix in it
C28_CacheIsDisk ==
    (rpc \in {"browse", "showing"} /\ lastApply.ok) =>
        /\ content = disk
        /\ lines = disk

\* the session browses the second finding with the fix of the first in the
\* file and in the cache
C28_Witness ==
    /\ Browsing /\ currentIdx = 1
    /\ lastApply.ok /\ appliedFixes = {0}
    /\ disk # orig /\ lines = disk

\* ---------------------------------------------------------------------------
\* The static pre-scan: one result for one set of files
\* ---------------------------------------------------------------------------

\* C29 (as claimed): the findings of a pre-scan are the findings of every
\* other pre-scan of the same files, in the same order, whatever order the
\* run ranged over the files in
C29_Original ==
    (subject.kind = "corpus" /\ applied # <<>>) =>
        \A order \in KeyOrders(subject.value) :
            applied[1].result = runTriadStaticAnalysis(subject.value, order)

\* ---------------------------------------------------------------------------
\* Progress messages
\* ---------------------------------------------------------------------------

\* C30: in a security or custom batch every message carries the total
\* len(files) x stages per file (3 for security, 2 for custom) and a k with
\* 1 <= k <= total, and no k is carried by messages of two files, whatever
\* the interleaving of the workers; the counter is read and raised in one
\* step under progressMu, and each message is set in one step under it
C30_ProgressNumbers ==
    PoolMode =>
        /\ \A i \in FileIndices : \A a \in 1..Len(msgs[i]) :
             /\ msgs[i][a][2] = Len(files) * (IF scanType = "security" THEN 3 ELSE 2)
             /\ 1 <= msgs[i][a][1]
             /\ msgs[i][a][1] <= msgs[i][a][2]
        /\ \A i, j \in FileIndices :
             i < j => \A a \in 1..Len(msgs[i]), b \in 1..Len(msgs[j]) :
                        msgs[i][a][1] # msgs[j][b][1]

\* a security batch of two files has returned in which the second file was
\* counted first: it carries the messages 1 to 3 and the first file 4 to 6
C30_Witness ==
    /\ PoolReturned /\ scanType = "security" /\ Len(files) = 2
    /\ msgs[2] = <<<<1, 6>>, <<2, 6>>, <<3, 6>>>>
    /\ msgs[1] = <<<<4, 6>>, <<5, 6>>, <<6, 6>>>>

\* ---------------------------------------------------------------------------
\* applyFix: the indentation of what it writes
\* ---------------------------------------------------------------------------

\* the leading white space of the first line of the range, as the file had it
BaseIndent == LeadingSpace(lastApply.before[lastApply.lineStart])

\* the columns by which a fix line is indented beyond the least-indented
\* non-blank line of the fix, a tab counted as 4
ExcessColumns(j) ==
    IndentColumns(AppliedFixLines[j])
    - Min({IndentColumns(AppliedFixLines[i]) :
             i \in {k \in 1..Len(AppliedFixLines) : ~IsBlank(AppliedFixLines[k])}})

\* C31: after a successful applyFix a blank fix line is written empty, and a
\* non-blank fix line is written as the leading white space of the original
\* first line of the range, then its indentation in excess of the minimum
\* (tabs and remainder spaces under an indent that holds a tab, spaces
\* otherwise; nothing for a least-indented line), then its trimmed text
C31_Reindented ==
    lastApply.ok =>
      LET fixLines == AppliedFixLines
          base == BaseIndent
          tabbed == "\t" \in {base[i] : i \in 1..Len(base)}
          columns == [j \in 1..Len(fixLines) |-> IndentColumns(fixLines[j])]
          least == Min({columns[i] : i \in {k \in 1..Len(fixLines) : ~IsBlank(fixLines[k])}})
      IN  \A j \in 1..Len(fixLines) :
            LET written == disk[lastApply.lineStart - 1 + j]
                excess == columns[j] - least
                indent == IF tabbed
                          THEN Repeat("\t", excess \div 4) \o Repeat(" ", excess % 4)
                          ELSE Repeat(" ", excess)
            IN  IF IsBlank(fixLines[j]) THEN written = <<>>
                ELSE /\ written = base \o indent \o TrimSpace(fixLines[j])
                     /\ excess = 0 => LeadingSpace(written) = base

\* a fix whose second line is indented five columns deeper than its first has
\* replaced a line indented with a tab: tab, one more tab, one space
C31_Witness ==
    /\ lastApply.ok
    /\ BaseIndent = <<"\t">>
    /\ Len(AppliedFixLines) = 2
    /\ ExcessColumns(1) = 0 /\ ExcessColumns(2) = 5
    /\ disk[lastApply.lineStart] = <<"\t", "f1">>
    /\ disk[lastApply.lineStart + 1] = <<"\t", "\t", " ", "f2">>

(***************************************************************************)
(* Properties of the custom prompt.                                        *)
(***************************************************************************)
\* a line that opens with a MODE: directive, in either case, behind white space
OpensWithDirective(line) ==
    TrimLeft(line) # <<>> /\ Head(TrimLeft(line)) \in {"MODE:", "mode:"}

\* the mode a directive line names, ask when it is none of the three
NamedMode(line) ==
    LET name == TrimSpace(Tail(TrimLeft(line))) IN
    IF name \in {<<"edit">>} THEN "edit"
    ELSE IF name \in {<<"PLAN">>} THEN "plan"
    ELSE "ask"

\* the first line of a text, and what follows its first line break
FirstLine(t) == SplitN2(t)[1]
AfterFirstLine(t) == IF Len(SplitN2(t)) > 1 THEN SplitN2(t)[2] ELSE <<>>

\* C32: parseCustomPrompt always yields ask, edit or plan and the template of
\* that mode is rendered; on the prompt trimmed of surrounding white space, a
\* first line that opens with MODE: in either case gives the mode it names
\* when that is one of the three and ask otherwise, and the user prompt is
\* what follows that line, trimmed; without such a line the mode is ask and
\* the user prompt is the whole prompt trimmed of surrounding white space
C32_ModeAndBody ==
    \A k \in 1..Len(applied) :
      applied[k].op = "parse" =>
        LET trimmed == TrimSpace(applied[k].arg)
            parsed == applied[k].result.parsed
        IN /\ parsed.mode \in {"ask", "edit", "plan"}
           /\ applied[k].result.template = <<"custom/", parsed.mode, ".txt">>
           /\ IF OpensWithDirective(FirstLine(trimmed))
              THEN /\ parsed.mode = NamedMode(FirstLine(trimmed))
                   /\ parsed.userPrompt = TrimSpace(AfterFirstLine(trimmed))
              ELSE /\ parsed.mode = "ask"
                   /\ parsed.userPrompt = trimmed

\* a directive in lower case that names PLAN in upper case, then a body
C32_Witness ==
    /\ applied # <<>>
    /\ applied[1].op = "parse"
    /\ applied[1].arg = <<"mode:", "PLAN", "\n", "w">>
    /\ applied[1].result.parsed = [mode |-> "plan", userPrompt |-> <<"w">>]

\* C32 (as claimed): the mode is the one a directive on the first line of the
\* prompt names when it is one of the three and otherwise ask; a directive
\* line is removed from the user prompt, and a prompt without a directive on
\* its first line is passed whole with mode ask.
C32_Original ==
    \A k \in 1..Len(applied) :
      applied[k].op = "parse" =>
        LET raw == applied[k].arg
            parsed == applied[k].result.parsed
        IN /\ parsed.mode \in {"ask", "edit", "plan"}
           /\ IF OpensWithDirective(FirstLine(raw))
              THEN /\ parsed.mode = NamedMode(FirstLine(raw))
                   /\ parsed.userPrompt = TrimSpace(AfterFirstLine(raw))
              ELSE /\ parsed.mode = "ask"
                   /\ parsed.userPrompt = raw

(***************************************************************************)
(* Properties of fence-stripping.                                          *)
(***************************************************************************)
HasFence(t) == \E i \in 1..Len(t) : t[i] = "FENCE"

\* a text that opens with a fence marker and closes with another one
IsFenced(t) ==
    /\ Len(t) >= 2 /\ t[1] = "FENCE" /\ t[Len(t)] = "FENCE"
    /\ (Len(t) >= 3 \/ t[2] # "json")

\* what lies between the opening marker, tagged json or bare, and the closing one
Payload(t) ==
    IF Len(t) >= 3 /\ t[2] = "json" THEN SubSeq(t, 3, Len(t) - 1)
    ELSE SubSeq(t, 2, Len(t) - 1)

\* C33: fence-stripping a response that is, inside any surrounding white
\* space, an opening marker (tagged json, or else bare), a payload and a
\* closing marker gives the payload trimmed of surrounding white space;
\* a response without fences is returned trimmed and otherwise unchanged;
\* and a scan response whose payload is the object with an empty findings
\* list decodes, fenced or not, into a result with no issues and hasIssues false
C33_FenceStripped ==
    \A k \in 1..Len(applied) :
      LET response == TrimSpace(applied[k].arg) IN
      /\ (applied[k].op = "strip" /\ IsFenced(response)) =>
           applied[k].result = TrimSpace(Payload(response))
      /\ (applied[k].op = "strip" /\ ~HasFence(response)) =>
           applied[k].result = response
      /\ (/\ applied[k].op = "decode"
          /\ NoFindingsJSON = IF IsFenced(response) THEN TrimSpace(Payload(response))
                              ELSE response)
         => /\ ~applied[k].result.err
            /\ applied[k].result.result.issues = <<>>
            /\ applied[k].result.result.hasIssues = FALSE

\* a fence tagged json, the empty findings object and the closing fence have
\* been decoded into a result without issues
C33_Witness ==
    /\ applied # <<>>
    /\ applied[1].op = "decode"
    /\ applied[1].arg = <<"FENCE", "json", "{findings:[]}", "FENCE">>
    /\ ~applied[1].result.err
    /\ applied[1].result.result.hasIssues = FALSE

(***************************************************************************)
(* The review session: the current finding.                                *)
(***************************************************************************)
\* C35: throughout a review session currentIdx is an index of a finding,
\* 0 to len(findings) - 1, whatever keys are pressed; it moves by one
\* finding at a time, Next at the last finding and Previous at the first
\* leave it where it is, and it never moves forward from the last finding
C35_IndexInRange ==
    /\ [](currentIdx \in 0..LastIdx)
    /\ [][/\ currentIdx' \in {currentIdx - 1, currentIdx, currentIdx + 1}
          /\ currentIdx = LastIdx => currentIdx' <= currentIdx
          /\ (NextFinding /\ currentIdx = LastIdx) => currentIdx' = currentIdx
          /\ (PreviousFinding /\ currentIdx = 0) => currentIdx' = currentIdx]_vars

\* the first of two findings was applied, which moved the session on to the
\* last finding, where it still is
C35_Witness ==
    /\ Browsing
    /\ Len(findings) = 2
    /\ appliedFixes = {0}
    /\ currentIdx = LastIdx

(***************************************************************************)
(* Properties of the spinner of ScanFiles.                                 *)
(***************************************************************************)
\* the callers inside a spinner.Stop() that has not returned
Stopping == spinner.senders

\* C36: during ScanFiles, whatever the interleaving of the workers, no two
\* Stop calls are under way together and no Start takes effect while a Stop
\* is under way; at most one render goroutine is alive, and one is alive
\* exactly while the spinner is active or a Stop waits in its send; every
\* value sent over done by a Stop is received by one render goroutine, which
\* ends with it, or is the one value still in flight; and when ScanFiles
\* returns the spinner is inactive, no render goroutine is alive and every
\* value sent was received
C36_SpinnerDiscipline ==
    /\ Cardinality(Stopping) <= 1
    /\ ~(spinner.active /\ Stopping # {})
    /\ spinner.renderers <= 1
    /\ spinner.renderers = IF spinner.active \/ Stopping # {} THEN 1 ELSE 0
    /\ spinner.sent = spinner.received + Cardinality(Stopping)
    /\ mainPc = "done" =>
         /\ ~spinner.active
         /\ spinner.renderers = 0
         /\ Stopping = {}
         /\ spinner.sent = spinner.received

\* ScanFiles has returned from two files that both failed: the spinner was
\* stopped twice on the error path and once at the end, and three render
\* goroutines have ended, each on one value of done
C36_Witness ==
    /\ PoolReturned
    /\ Len(files) = 2 /\ Cardinality(errLog) = 2
    /\ spinner.sent = 3 /\ spinner.received = 3
    /\ spinner.renderers = 0

(***************************************************************************)
(* Termination of ScanFiles in security / custom mode.                     *)
(***************************************************************************)
\* the producer has room in the job queue for the index it is about to send
ProducerHasRoom ==
    (mainPc = "queue" /\ nextJob <= Len(files)) => Len(jobs) < Len(files)

\* ScanFiles is past wg.Wait() only when every worker has left its loop
WaitedForWorkers ==
    mainPc \in {"stop", "done"} => \A w \in Workers : wpc[w] = "exited"

\* a spinner.Stop() in its send has a render goroutine alive to receive it
StopHasReceiver == spinner.senders # {} => spinner.renderers > 0

\* C34: when every file read and every model call returns and every
\* goroutine is scheduled, ScanFiles in security or custom mode returns in
\* the end, for any number of files, zero included: the producer always has
\* room in the job queue, every worker has left its loop when ScanFiles
\* goes on past wg.Wait(), and a spinner.Stop(), on the error path or at
\* the end, always has a render goroutine to receive what it sends
C34_Terminates ==
    /\ [](ProducerHasRoom /\ WaitedForWorkers /\ StopHasReceiver)
    /\ PoolMode ~> PoolReturned

\* ScanFiles has returned after a failure: a worker stopped and started the
\* spinner on the error path, and ScanFiles stopped it at the end
C34_Witness ==
    /\ PoolReturned
    /\ errLog # {}
    /\ Len(retResults) + Cardinality(errLog) = Len(files)
    /\ spinner.received = Cardinality(errLog) + 1

====
